---- MODULE Spec2Model ----
(***************************************************************************)
(* A model of the worse-preact rendering engine: the vnode heap, the host  *)
(* DOM, the child reconciler (children.js), the diff engine (diff.js), the *)
(* render entry (render.js), the hooks (hooks.js), the context registry    *)
(* (context.js) and the re-render scheduler (scheduler.js).                *)
(*                                                                         *)
(* Objects of the program (vnodes, component instances, DOM nodes) live in *)
(* three heaps; an object's identity is its index in its heap and 0 is the *)
(* null reference.  The engine's functions are operators that take a world *)
(* record (the heaps and the scheduler's module state) and return the      *)
(* world after the call.                                                   *)
(***************************************************************************)
EXTENDS Integers, Sequences, FiniteSets, TLC

\* ------------------------------------------------------------------------
\* Bounds of the model
\* ------------------------------------------------------------------------
\* number of top-level operations (render calls, setter calls, drains) a run makes
MaxSteps == 4
\* number of render calls among them
MaxRenders == 2
\* longest child list a render passes to a parent element
MaxKids == 3

\* ------------------------------------------------------------------------
\* Representation
\* ------------------------------------------------------------------------
NoKey == "null"          \* key === null / undefined
TEXT == "#text"          \* vnode.type === null marks a text vnode
PORTAL_TYPE == "#portal" \* Symbol.for('worsepreact.portal')
NULLCHILD == "#null"     \* a null / undefined / boolean entry of a render result
ARRAY == "#array"        \* a nested array entry of a render result
Tags == {"div", "span", "p", "ul", "li", "button"}
Functions == {"Fragment", "Show", "Pick", "Red", "Eff", "Provider", "Use", "Sync", "Bump", "Boom",
              "Lay"}
NoRef == ""              \* vnode.ref === null
UNDEFINED == "undefined" \* the value a read of an unassigned field yields
\* host containers that exist before any render: the render root and a
\* portal target (ids in the DOM heap)
Root == 1
Target == 2
\* a second portal target, present in the runs that move a portal
Target2 == 3

\* const x = v; followed by the statements F that read x
Bind(v, F(_)) == F(v)
Last(s) == s[Len(s)]
SeqToSet(s) == {s[i] : i \in 1..Len(s)}
RECURSIVE FlatSeq(_)
FlatSeq(ss) == IF ss = <<>> THEN <<>> ELSE Head(ss) \o FlatSeq(Tail(ss))
IndexOf(s, x) == IF \E i \in 1..Len(s) : s[i] = x
                 THEN CHOOSE i \in 1..Len(s) : s[i] = x /\ \A j \in 1..(i-1) : s[j] # x
                 ELSE 0
RemoveAt(s, i) == SubSeq(s, 1, i-1) \o SubSeq(s, i+1, Len(s))
InsertAt(s, i, x) == SubSeq(s, 1, i-1) \o <<x>> \o SubSeq(s, i, Len(s))

\* ------------------------------------------------------------------------
\* Host DOM (the node API the engine consumes)
\* ------------------------------------------------------------------------
\* a world's dom heap is a sequence of [tag, text, parent, kids, vnode];
\* vnode is the root vnode render() caches on a container (container._children)
\* the event props of the elements and the event each one names:
\* name.slice(2).toLowerCase()
EventProps == {"onClick", "onInput"}
EventNameOf == [onClick |-> "click", onInput |-> "input"]
EventNames == {EventNameOf[p] : p \in EventProps}
\* a prop that is not in the props object, and the handler values of one
\* that is
ABSENT == "absent"
HandlerFns == {"f1", "f2"}
HandlerValues == HandlerFns \cup {"null"}
NoHandlers == [p \in EventProps |-> ABSENT]
\* an element without _listeners: every entry reads undefined
NoListeners == [e \in EventNames |-> "undefined"]

\* proxies: the event names for which eventProxy is registered on the node
NewDomNode(tag, text) ==
  [tag |-> tag, text |-> text, parent |-> 0, kids |-> <<>>, vnode |-> 0,
   listeners |-> NoListeners, proxies |-> {}, born |-> 0]

parentNode(w, n) == w.dom[n].parent
firstChild(w, p) == IF w.dom[p].kids = <<>> THEN 0 ELSE Head(w.dom[p].kids)
nextSibling(w, n) ==
  LET p == w.dom[n].parent IN
  IF p = 0 THEN 0
  ELSE LET i == IndexOf(w.dom[p].kids, n) IN
       IF i = Len(w.dom[p].kids) THEN 0 ELSE w.dom[p].kids[i+1]
previousSibling(w, n) ==
  LET p == w.dom[n].parent IN
  IF p = 0 THEN 0
  ELSE LET i == IndexOf(w.dom[p].kids, n) IN
       IF i = 1 THEN 0 ELSE w.dom[p].kids[i-1]

\* the heap after node n is taken out of its parent's child list
Detached(dom, n) ==
  LET p == dom[n].parent IN
  IF p = 0 THEN dom
  ELSE [dom EXCEPT ![p].kids = RemoveAt(@, IndexOf(@, n)), ![n].parent = 0]

LogOp(w, op, n, p, r) ==
  [w EXCEPT !.ops = Append(@, [op |-> op, node |-> n, parent |-> p, ref |-> r])]

\* document.createElement / createElementNS / createTextNode: the new node
\* is Len(w.dom) + 1; born records the operation that created it (0 for a
\* node that was there before the first render)
createNode(w, tag, text) ==
  LogOp([w EXCEPT !.dom = Append(@, [NewDomNode(tag, text) EXCEPT !.born = w.now])],
        "create", Len(w.dom) + 1, 0, 0)

\* parent.insertBefore(n, ref); ref = 0 appends.  A ref that is not a child
\* of parent raises NotFoundError.  insertBefore(n, n) leaves n where it is.
insertBefore(w, p, n, ref) ==
  IF ref # 0 /\ w.dom[ref].parent # p
  THEN [LogOp(w, "insertBefore", n, p, ref) EXCEPT !.err = "NotFoundError"]
  ELSE LET r  == IF ref = n THEN nextSibling(w, n) ELSE ref
           d1 == Detached(w.dom, n)
           i  == IF r = 0 THEN Len(d1[p].kids) + 1 ELSE IndexOf(d1[p].kids, r)
           d2 == [d1 EXCEPT ![p].kids = InsertAt(@, i, n), ![n].parent = p]
       IN LogOp([w EXCEPT !.dom = d2], "insertBefore", n, p, ref)

appendChild(w, p, n) ==
  LET d1 == Detached(w.dom, n)
      d2 == [d1 EXCEPT ![p].kids = Append(@, n), ![n].parent = p]
  IN LogOp([w EXCEPT !.dom = d2], "appendChild", n, p, 0)

\* node.remove()
remove(w, n) ==
  LogOp([w EXCEPT !.dom = Detached(@, n)], "remove", n, w.dom[n].parent, 0)

\* ------------------------------------------------------------------------
\* VNodes (vnode.js)
\* ------------------------------------------------------------------------
\* What h() / createPortal() hand to the engine: a description with the
\* fields type, key, ref, text (payload of a string child; the value / dep
\* prop of a component), kids (props.children as a sequence) and container
\* (props._container of a portal).
Desc(type, key, text, kids, container) ==
  [type |-> type, key |-> key, ref |-> NoRef, text |-> text, kids |-> kids,
   container |-> container, on |-> NoHandlers]
\* h(type, {onClick, onInput, ...}, ...): the event props of an element
WithOn(d, on) == [d EXCEPT !.on = on]
\* h(type, {ref, ...}, ...): ref is taken out of the props onto the vnode
WithRef(d, r) == [d EXCEPT !.ref = r]
Txt(s) == Desc(TEXT, NoKey, s, <<>>, 0)
H(type, key, kids) == Desc(type, key, "", kids, 0)
Nil == Desc(NULLCHILD, NoKey, "", <<>>, 0)
Arr(kids) == Desc(ARRAY, NoKey, "", kids, 0)
createPortal(children, container) == Desc(PORTAL_TYPE, NoKey, "", children, container)

\* createVNode(type, props, key, ref): the new vnode is Len(w.vn) + 1.
\* _children is a sequence of vnode ids (<<>> also stands for null: every
\* reader of _children treats null as the empty list).  contextValue and
\* subs are the fields _contextValue and _contextSubscriptions, which the
\* vnode does not have until something assigns them.
createVNode(w, d) ==
  [w EXCEPT !.vn = Append(@,
     [type |-> d.type, props |-> d, key |-> d.key, ref |-> d.ref,
      children |-> <<>>, dom |-> 0, component |-> 0,
      parent |-> 0, depth |-> 0, index |-> 0,
      contextValue |-> UNDEFINED, subs |-> <<>>])]

\* ------------------------------------------------------------------------
\* Child reconciliation (children.js)
\* ------------------------------------------------------------------------
\* normalizeChildren: the render result flattened, with null / boolean
\* entries dropped; each kept entry is then cloned into a fresh vnode
RECURSIVE normalizeChildren(_)
normalizeChildren(children) ==
  IF children = <<>> THEN <<>>
  ELSE LET c == Head(children) IN
       (IF c.type = NULLCHILD THEN <<>>
        ELSE IF c.type = ARRAY THEN normalizeChildren(c.kids)
        ELSE <<c>>) \o normalizeChildren(Tail(children))

RECURSIVE cloneAll(_, _)
cloneAll(w, ds) ==
  IF ds = <<>> THEN w ELSE cloneAll(createVNode(w, Head(ds)), Tail(ds))

RECURSIVE getFirstDomIn(_, _, _), getLastDomIn(_, _, _)
getFirstDom(w, v) ==
  IF v = 0 THEN 0
  ELSE IF w.vn[v].dom # 0 THEN w.vn[v].dom
  ELSE getFirstDomIn(w, w.vn[v].children, 1)
getFirstDomIn(w, kids, i) ==
  IF i > Len(kids) THEN 0
  ELSE LET childDom == getFirstDom(w, kids[i]) IN
       IF childDom # 0 THEN childDom ELSE getFirstDomIn(w, kids, i + 1)

getLastDom(w, v) ==
  IF v = 0 THEN 0
  ELSE IF w.vn[v].dom # 0 THEN w.vn[v].dom
  ELSE getLastDomIn(w, w.vn[v].children, Len(w.vn[v].children))
getLastDomIn(w, kids, i) ==
  IF i < 1 THEN 0
  ELSE LET childDom == getLastDom(w, kids[i]) IN
       IF childDom # 0 THEN childDom ELSE getLastDomIn(w, kids, i - 1)

\* placeChild: move all DOM nodes of a vnode before refDom
RECURSIVE placeChild(_, _, _, _), placeChildIn(_, _, _, _, _)
placeChild(w, parentDom, v, refDom) ==
  IF w.err # "" THEN w
  ELSE IF w.vn[v].dom # 0
  THEN IF parentNode(w, w.vn[v].dom) = parentDom
       THEN insertBefore(w, parentDom, w.vn[v].dom, refDom)
       ELSE w
  ELSE placeChildIn(w, parentDom, w.vn[v].children, 1, refDom)
placeChildIn(w, parentDom, kids, i, refDom) ==
  IF i > Len(kids) \/ w.err # "" THEN w
  ELSE Bind(placeChild(w, parentDom, kids[i], refDom), LAMBDA w1 :
       Bind(getLastDom(w1, kids[i]), LAMBDA childLastDom :
       placeChildIn(w1, parentDom, kids, i + 1,
                    IF childLastDom # 0 THEN nextSibling(w1, childLastDom) ELSE refDom)))

\* Phase 1 of diffChildren: for every new child the index of the old child
\* it reuses (0 = none).  old and new are sequences of vnode records.
\* oldChildrenByKey is a Map filled left to right, so a key maps to the
\* last old child that carries it.
oldChildrenByKey(old, k) ==
  LET S == {j \in 1..Len(old) : old[j].key # NoKey /\ old[j].key = k} IN
  IF S = {} THEN 0 ELSE CHOOSE j \in S : \A j2 \in S : j2 <= j

matchKeyed(old, matched, newChild) ==
  LET keyIndex == oldChildrenByKey(old, newChild.key) IN
  IF keyIndex # 0 /\ keyIndex \notin matched /\ old[keyIndex].type = newChild.type
  THEN keyIndex ELSE 0

\* unkeyed matching without the preference for the same position
matchUnkeyed_scan(old, matched, newChild, i) ==
  LET S == {j \in 1..Len(old) : j \notin matched /\ old[j].key = NoKey
                                /\ old[j].type = newChild.type}
  IN IF S = {} THEN 0 ELSE CHOOSE j \in S : \A j2 \in S : j <= j2

matchUnkeyed(old, matched, newChild, i) ==
  LET atPos == i <= Len(old) /\ i \notin matched
               /\ old[i].key = NoKey /\ old[i].type = newChild.type
      S == {j \in 1..Len(old) : j \notin matched /\ old[j].key = NoKey
                                /\ old[j].type = newChild.type}
  IN IF atPos THEN i
     ELSE IF S = {} THEN 0
     ELSE CHOOSE j \in S : \A j2 \in S : j <= j2

RECURSIVE matchChildren(_, _, _, _, _)
matchChildren(old, new, i, matched, acc) ==
  IF i > Len(new) THEN acc
  ELSE LET matchedIndex == IF new[i].key # NoKey
                           THEN matchKeyed(old, matched, new[i])
                           ELSE matchUnkeyed(old, matched, new[i], i)
       IN matchChildren(old, new, i + 1,
                        IF matchedIndex # 0 THEN matched \cup {matchedIndex} ELSE matched,
                        Append(acc, matchedIndex))

\* ------------------------------------------------------------------------
\* Scheduler queue (scheduler.js)
\* ------------------------------------------------------------------------
\* enqueueRender without the duplicate check
enqueueRender_push(w, c) ==
  LET w1 == [w EXCEPT !.q = Append(@, c)] IN
  IF ~w1.sched THEN [w1 EXCEPT !.sched = TRUE, !.mt = @ + 1] ELSE w1

\* enqueueRender: no duplicates; the first enqueue since the last drain
\* started queues the processRenderQueue microtask
enqueueRender(w, c) ==
  IF c \in SeqToSet(w.q) THEN w
  ELSE LET w1 == [w EXCEPT !.q = Append(@, c)] IN
       IF ~w1.sched THEN [w1 EXCEPT !.sched = TRUE, !.mt = @ + 1] ELSE w1

\* dequeueRender: exported by scheduler.js; no module of the engine calls it
dequeueRender(w, c) ==
  LET index == IndexOf(w.q, c) IN
  IF index # 0 THEN [w EXCEPT !.q = RemoveAt(@, index)] ELSE w

\* ------------------------------------------------------------------------
\* Hooks (hooks.js)
\* ------------------------------------------------------------------------
\* Object.is on the model's values: a value is its printed form, so "NaN"
\* equals "NaN" and "0" differs from "-0"
ObjectIs(a, b) == a = b
\* === on the same values (NaN is not equal to itself, +0 equals -0)
StrictEquals(a, b) ==
  /\ a # "NaN" /\ b # "NaN"
  /\ (a = b \/ {a, b} = {"0", "-0"})

setCurrentComponent(w, c) == [w EXCEPT !.cur = c, !.idx = 0]
\* a body that throws without the finally block around it
finallyClear_skip(w) == w
\* try { rendered = type(props) } finally { setCurrentComponent(null) } when
\* the body throws
finallyClear(w) == setCurrentComponent(w, 0)

\* getHookState(currentIndex++) followed by the initialisation that
\* useState and useReducer share: the slot is created on first use, its
\* value initialised once, and the stable setter / dispatcher is created
\* once.  The slot's _component is the component that owns the list.
\* An effect slot holds _value (the callback, named by the deps its closure
\* captured), _args and _pendingArgs (NoArgs = undefined) and _cleanup (0 =
\* undefined, else the position in the trace of the invocation that
\* returned it).
NoArgs == <<"#undefined">>
NewSlot == [initialized |-> FALSE, value |-> "undefined", kind |-> "", setter |-> FALSE,
            args |-> NoArgs, pendingArgs |-> NoArgs, cleanup |-> 0]
useStateSlot(w, kind, initialState) ==
  LET c  == w.cur
      i  == w.idx + 1
      w1 == IF w.idx >= Len(w.cm[c].list)
            THEN [w EXCEPT !.cm[c].list = Append(@, NewSlot)] ELSE w
      w2 == IF ~w1.cm[c].list[i].initialized
            THEN [w1 EXCEPT !.cm[c].list[i].initialized = TRUE,
                            !.cm[c].list[i].value = initialState,
                            !.cm[c].list[i].kind = kind]
            ELSE w1
  IN [w2 EXCEPT !.cm[c].list[i].setter = TRUE, !.idx = @ + 1]
useState(w, initialState) == useStateSlot(w, "state", initialState)
useReducer(w, initialArg) == useStateSlot(w, "reducer", initialArg)

\* state values, and what a caller can pass to a setter: a value, or an
\* updater function (named by what it does)
Vals == {"0", "1", "NaN", "-0"}
Updaters == {"prev => prev"}
Updates == Vals \cup Updaters
ApplyUpdate(update, prev) ==
  IF update \in Updaters THEN prev ELSE update

\* the setter with === in place of Object.is
setState_strict(w, c, i, update) ==
  LET nextValue == ApplyUpdate(update, w.cm[c].list[i].value) IN
  IF ~StrictEquals(w.cm[c].list[i].value, nextValue)
  THEN enqueueRender([w EXCEPT !.cm[c].list[i].value = nextValue], c)
  ELSE w

\* the setter useState returns
setState(w, c, i, update) ==
  LET nextValue == ApplyUpdate(update, w.cm[c].list[i].value) IN
  IF ~ObjectIs(w.cm[c].list[i].value, nextValue)
  THEN enqueueRender([w EXCEPT !.cm[c].list[i].value = nextValue], c)
  ELSE w

\* the reducer of the component Red: (state, action) =>
\*   action.type === 'set' ? action.value : state
ReducerActions == Vals \cup {"noop"}
reducer(state, action) == IF action = "noop" THEN state ELSE action

\* the dispatcher useReducer returns
dispatch(w, c, i, action) ==
  LET nextValue == reducer(w.cm[c].list[i].value, action) IN
  IF ~ObjectIs(w.cm[c].list[i].value, nextValue)
  THEN enqueueRender([w EXCEPT !.cm[c].list[i].value = nextValue], c)
  ELSE w

\* The trace: every hook call, callback invocation, cleanup invocation, ref
\* assignment and runCleanups call the engine makes, in order; at is the
\* top-level operation that made it.
Note(w, kind, c, i, x, deps, ref) ==
  [w EXCEPT !.trace = Append(@, [kind |-> kind, c |-> c, i |-> i, x |-> x,
                                 deps |-> deps, ref |-> ref, at |-> w.now])]

\* getHookState(index): the slot is created on first use
getHookState(w, index) ==
  IF index >= Len(w.cm[w.cur].list)
  THEN [w EXCEPT !.cm[w.cur].list = Append(@, NewSlot)] ELSE w

\* argsChanged(oldArgs, newArgs); the components of this model always pass
\* a deps array, so newArgs is never undefined
argsChanged(oldArgs, newArgs) ==
  \/ oldArgs = NoArgs
  \/ newArgs = NoArgs
  \/ Len(oldArgs) # Len(newArgs)
  \/ \E i \in 1..Len(newArgs) : ~ObjectIs(oldArgs[i], newArgs[i])

\* useEffect(callback, deps)
useEffect(w, callback, deps) ==
  LET c == w.cur
      i == w.idx + 1
      changed == argsChanged(getHookState(w, w.idx).cm[c].list[i].args, deps)
      w1 == [getHookState(w, w.idx) EXCEPT !.idx = @ + 1, !.cm[c].list[i].kind = "effect"]
      w2 == IF changed
            THEN [w1 EXCEPT !.cm[c].list[i].value = callback,
                            !.cm[c].list[i].pendingArgs = deps,
                            !.cm[c].pendingEffects = Append(@, i)]
            ELSE w1
  IN Note(w2, "useEffect", c, i, IF changed THEN 1 ELSE 0, deps, NoRef)

\* useLayoutEffect(callback, deps)
useLayoutEffect(w, callback, deps) ==
  LET c == w.cur
      i == w.idx + 1
      changed == argsChanged(getHookState(w, w.idx).cm[c].list[i].args, deps)
      w1 == [getHookState(w, w.idx) EXCEPT !.idx = @ + 1, !.cm[c].list[i].kind = "layout"]
      w2 == IF changed
            THEN [w1 EXCEPT !.cm[c].list[i].value = callback,
                            !.cm[c].list[i].pendingArgs = deps,
                            !.cm[c].layoutEffectsDefined = TRUE,
                            !.cm[c].pendingLayoutEffects = Append(@, i)]
            ELSE w1
  IN Note(w2, "useLayoutEffect", c, i, IF changed THEN 1 ELSE 0, deps, NoRef)

\* createExternalStore(initialState): the state and the Set of listeners in
\* insertion order; a listener is the closure that one run of the
\* subscription effect of component c passed to subscribe
NewStore == [state |-> "0", listeners |-> <<>>]
getSnapshot(w) == w.store.state
subscribe(w, c, id) == [w EXCEPT !.store.listeners = Append(@, [c |-> c, id |-> id])]
\* the function subscribe returned: listeners.delete(listener)
unsubscribe(w, id) ==
  [w EXCEPT !.store.listeners = SelectSeq(@, LAMBDA l : l.id # id)]
\* the listener of useSyncExternalStore: setSnapshot(() => getSnapshot())
RECURSIVE notifyListeners(_, _, _)
notifyListeners(w, ls, k) ==
  IF k > Len(ls) THEN w
  ELSE notifyListeners(setState(w, ls[k].c, 1, getSnapshot(w)), ls, k + 1)
\* store.set(value)
storeSet(w, value) ==
  notifyListeners([w EXCEPT !.store.state = value], w.store.listeners, 1)

\* the effect callback of useSyncExternalStore, a closure over the snapshot
\* of the render that made it
SyncCallback(snapshot) == <<"sync", snapshot>>
IsSyncCallback(callback) == Len(callback) = 2 /\ callback[1] = "sync"
\* the subscription effect without the check for a missed update
callEffect_noCheck(w, c, i, id) ==
  IF IsSyncCallback(w.cm[c].list[i].value) THEN subscribe(w, c, id) ELSE w
\* hookState._value(): the subscription effect compares the snapshot of its
\* render with the current one, sets the state and subscribes; the other
\* effects of this model do nothing
callEffect(w, c, i, id) ==
  IF IsSyncCallback(w.cm[c].list[i].value)
  THEN subscribe(IF ~ObjectIs(w.cm[c].list[i].value[2], getSnapshot(w))
                 THEN setState(w, c, i - 1, getSnapshot(w))
                 ELSE w, c, id)
  ELSE w
\* hookState._cleanup(): the subscription effect's cleanup unsubscribes
callCleanup(w, hookState) ==
  IF IsSyncCallback(hookState.value) THEN unsubscribe(w, hookState.cleanup) ELSE w

\* useSyncExternalStore(subscribe, getSnapshot) with a stable subscribe
useSyncExternalStore(w) ==
  Bind(useState(w, getSnapshot(w)), LAMBDA w1 :
    useEffect(w1, SyncCallback(w1.cm[w.cur].list[w.idx + 1].value), <<"subscribe">>))

\* the layout-effect callback of Lay: it throws when the render that made
\* it says so
LayCallback(throws) == <<"lay", throws>>
Throws(callback) == Len(callback) = 2 /\ callback[1] = "lay" /\ callback[2] = "throw"

\* the body of the forEach in runPendingEffects / runPendingLayoutEffects:
\* the previous cleanup, then the callback; every callback of this model
\* that returns, returns a cleanup function.  A callback that throws leaves
\* _cleanup and _args as they were.
runEffect(w, c, i, kind) ==
  LET hookState == w.cm[c].list[i]
      w1 == IF hookState.cleanup # 0
            THEN callCleanup(Note(w, "cleanup", c, i, hookState.cleanup, hookState.value, NoRef),
                             hookState)
            ELSE w
      w2 == Note(w1, kind, c, i, 0, hookState.value, NoRef)
  IN IF Throws(hookState.value) THEN [w2 EXCEPT !.err = "EffectError"]
     ELSE callEffect([w2 EXCEPT !.cm[c].list[i].cleanup = Len(w2.trace),
                                !.cm[c].list[i].args = hookState.pendingArgs],
                     c, i, Len(w2.trace))

\* the forEach that goes on after a callback threw
RECURSIVE runEffects_continue(_, _, _, _, _)
runEffects_continue(w, c, pending, k, kind) ==
  IF k > Len(pending) THEN w
  ELSE runEffects_continue(runEffect(w, c, pending[k], kind), c, pending, k + 1, kind)

\* hooks._pendingEffects.forEach(...): an exception ends it
RECURSIVE runEffects(_, _, _, _, _)
runEffects(w, c, pending, k, kind) ==
  IF k > Len(pending) \/ w.err # "" THEN w
  ELSE runEffects(runEffect(w, c, pending[k], kind), c, pending, k + 1, kind)

\* runPendingEffects(component); the list is cleared after the forEach, so
\* it is left as it was when a callback threw
runPendingEffects(w, c) ==
  IF w.cm[c].pendingEffects = <<>> THEN w
  ELSE Bind(runEffects(w, c, w.cm[c].pendingEffects, 1, "effect"), LAMBDA w1 :
         IF w1.err # "" THEN w1 ELSE [w1 EXCEPT !.cm[c].pendingEffects = <<>>])

\* runPendingLayoutEffects(component)
runPendingLayoutEffects(w, c) ==
  IF ~w.cm[c].layoutEffectsDefined THEN w
  ELSE Bind(runEffects(w, c, w.cm[c].pendingLayoutEffects, 1, "layout"), LAMBDA w1 :
         IF w1.err # "" THEN w1 ELSE [w1 EXCEPT !.cm[c].pendingLayoutEffects = <<>>])

\* ------------------------------------------------------------------------
\* Context (context.js)
\* ------------------------------------------------------------------------
\* createContext('default'): the one context of this model
Context == [id |-> "context-instance", defaultValue |-> "default", Provider |-> "Provider"]

\* findProvider(context, startVNode): up the _parent chain
RECURSIVE findProvider(_, _, _)
findProvider(w, context, current) ==
  IF current = 0 THEN 0
  ELSE IF w.vn[current].type = context.Provider THEN current
  ELSE findProvider(w, context, w.vn[current].parent)

\* Set.prototype.add / delete on a set kept in insertion order
SetAdd(s, x) == IF x \in SeqToSet(s) THEN s ELSE Append(s, x)
SetDelete(s, x) == SelectSeq(s, LAMBDA y : y # x)

\* subscribeToProvider(providerVNode, component)
subscribeToProvider(w, providerVNode, c) ==
  [w EXCEPT !.vn[providerVNode].subs = SetAdd(@, c),
            !.cm[c].subs = SetAdd(@, providerVNode)]

\* notifyContextSubscribers(providerVNode); exported by context.js, and no
\* module of the engine calls it
RECURSIVE notifyEach(_, _, _, _)
notifyEach(w, providerVNode, subs, k) ==
  IF k > Len(subs) THEN w
  ELSE notifyEach(IF w.cm[subs[k]].vnode # 0 THEN enqueueRender(w, subs[k])
                  ELSE [w EXCEPT !.vn[providerVNode].subs = SetDelete(@, subs[k])],
                  providerVNode, subs, k + 1)
notifyContextSubscribers(w, providerVNode) ==
  notifyEach(w, providerVNode, w.vn[providerVNode].subs, 1)

\* cleanupContextSubscriptions(component)
RECURSIVE unsubscribeEach(_, _, _, _)
unsubscribeEach(w, c, providers, k) ==
  IF k > Len(providers) THEN w
  ELSE unsubscribeEach([w EXCEPT !.vn[providers[k]].subs = SetDelete(@, c)],
                       c, providers, k + 1)
cleanupContextSubscriptions(w, c) ==
  [unsubscribeEach(w, c, w.cm[c].subs, 1) EXCEPT !.cm[c].subs = <<>>]

\* useContext(context): the world after the call, and the value returned
useContext(w, context) ==
  LET vnode == w.cm[w.cur].vnode
      providerVNode == IF vnode = 0 THEN 0 ELSE findProvider(w, context, w.vn[vnode].parent)
  IN IF providerVNode # 0 THEN subscribeToProvider(w, providerVNode, w.cur) ELSE w
useContextValue(w, context) ==
  LET vnode == w.cm[w.cur].vnode
      providerVNode == IF vnode = 0 THEN 0 ELSE findProvider(w, context, w.vn[vnode].parent)
  IN IF providerVNode # 0 THEN w.vn[providerVNode].contextValue
     ELSE context.defaultValue

\* runCleanups(component): every stored cleanup, then the context
\* subscriptions
RECURSIVE cleanupEach(_, _, _)
cleanupEach(w, c, i) ==
  IF i > Len(w.cm[c].list) THEN w
  ELSE cleanupEach(IF w.cm[c].list[i].cleanup # 0
                   THEN [callCleanup(Note(w, "cleanup", c, i, w.cm[c].list[i].cleanup,
                                          w.cm[c].list[i].value, NoRef),
                                     w.cm[c].list[i])
                           EXCEPT !.cm[c].list[i].cleanup = 0]
                   ELSE w, c, i + 1)
runCleanups(w, c) ==
  cleanupContextSubscriptions(
    cleanupEach(Note(w, "runCleanups", c, 0, 0, NoArgs, NoRef), c, 1), c)

\* ------------------------------------------------------------------------
\* Component functions the engine is exercised with
\* ------------------------------------------------------------------------
\* Fragment returns props.children.  Show and Red render their state as a
\* text followed by their children (Show holds it with useState, Red with
\* useReducer); Pick renders the child its state selects, and nothing when
\* the state selects none.  Eff is Show with a layout effect and a
\* post-paint effect, both with the deps [props.dep, state] and both
\* returning a cleanup.  Provider is Context.Provider (it returns
\* props.children).  Use is Show that renders the value useContext(Context)
\* returns in place of its state.
StateHookOf == [Show |-> "state", Pick |-> "state", Red |-> "reducer",
                Eff |-> "state", Use |-> "state", Sync |-> "state", Bump |-> "state",
                Boom |-> "state", Lay |-> "state"]
PickIndex(s) == IF s \in {"0", "-0"} THEN 1 ELSE IF s = "1" THEN 2 ELSE 0

\* type(props) with the current component set: the world after the body's
\* hook calls.  The call is recorded in w.calls with the state the body
\* read and the caller (via): "diff" for diffComponent, "scheduler" for
\* renderComponent.
\* The value a body of Use reads from the context is recorded in the trace.
\* the body of Bump: const [s, setS] = useState('0'); setS('1').  The
\* trace records the body and whether the setter enqueued the component.
setInBody(w, c) ==
  Bind(Note(w, "body", c, 1, 0, <<w.cm[c].list[1].value>>, NoRef), LAMBDA w1 :
    Note(setState(w1, c, 1, "1"), "setInBody", c, 1,
         IF ObjectIs(w1.cm[c].list[1].value, "1") THEN 0 ELSE 1, <<"1">>, NoRef))
\* the body of Boom: const [s] = useState('0'); it throws when its text
\* prop says so or its state is '1'
throwInBody(w, props) ==
  IF props.text = "throw" \/ w.cm[w.cur].list[1].value = "1"
  THEN [Note(w, "throw", w.cur, 0, 0, NoArgs, NoRef) EXCEPT !.err = "Error"] ELSE w
\* the body of Lay: const [s] = useState('0') and three layout effects
\* with the deps [props.text, s]; the second one throws when the text prop
\* says so or the state is '1'
layoutEffects(w, props) ==
  LET deps == <<props.text, w.cm[w.cur].list[1].value>>
      throws == IF props.text = "throw" \/ w.cm[w.cur].list[1].value = "1"
                THEN "throw" ELSE "ok"
  IN useLayoutEffect(
       useLayoutEffect(
         useLayoutEffect(w, LayCallback("ok"), deps),
         LayCallback(throws), deps),
       LayCallback("ok"), deps)
CallHooks(w, type, props) ==
  LET deps == <<props.text, w.cm[w.cur].list[1].value>> IN
  IF type = "Eff" THEN useEffect(useLayoutEffect(w, deps, deps), deps, deps)
  ELSE IF type = "Lay" THEN layoutEffects(w, props)
  ELSE IF type = "Bump" THEN setInBody(w, w.cur)
  ELSE IF type = "Boom" THEN throwInBody(w, props)
  ELSE IF type = "Use"
  THEN Note(useContext(w, Context), "useContext", w.cur, 0, 0,
            <<useContextValue(w, Context)>>, NoRef)
  ELSE w
CallBody(w, type, props, via) ==
  IF type \in {"Fragment", "Provider"} THEN w
  ELSE LET w1 == IF type = "Sync" THEN useSyncExternalStore(w)
                 ELSE IF StateHookOf[type] = "state" THEN useState(w, "0")
                 ELSE useReducer(w, "0")
       IN [CallHooks(w1, type, props)
             EXCEPT !.calls = Append(@, [c |-> w.cur, via |-> via,
                                         val |-> w1.cm[w.cur].list[1].value])]

\* the value the body returns, as an array
Rendered(w, c, type, props) ==
  IF type \in {"Fragment", "Provider"} THEN props.kids
  ELSE LET s == w.cm[c].list[1].value IN
       IF type = "Pick"
       THEN (IF PickIndex(s) \in 1..Len(props.kids) THEN <<props.kids[PickIndex(s)]>> ELSE <<>>)
       ELSE IF type = "Use"
       THEN <<Txt(useContextValue([w EXCEPT !.cur = c], Context))>> \o props.kids
       ELSE <<Txt(s)>> \o props.kids

\* ------------------------------------------------------------------------
\* Diff engine (diff.js) and diffChildren (children.js)
\* ------------------------------------------------------------------------
\* the ref objects a caller creates with createRef()
RefNames == {"r1", "r2"}
\* the value a ref holds: a DOM node, a component instance, or null
DomRef(d) == [dom |-> d, component |-> 0]
ComponentRef(c) == [dom |-> 0, component |-> c]
NullRef == [dom |-> 0, component |-> 0]

\* applyRef(ref, value); the refs of this model are objects ({ current })
applyRef(w, ref, value) ==
  IF ref = NoRef THEN w
  ELSE Note([w EXCEPT !.refs[ref] = value], "ref", value.component, 0, value.dom, NoArgs, ref)

\* refQueue.push({ ref, value, oldRef }) when the new vnode carries a ref
pushRef(w, newV, oldV, value) ==
  IF w.vn[newV].ref = NoRef THEN w
  ELSE [w EXCEPT !.rq = Append(@, [ref |-> w.vn[newV].ref, value |-> value,
                                   oldRef |-> IF oldV # 0 THEN w.vn[oldV].ref ELSE NoRef])]

\* commitQueue.push(component) when the component has something pending
pushCommit(w, component) ==
  IF w.cm[component].pendingEffects # <<>> \/ w.cm[component].layoutEffectsDefined
  THEN [w EXCEPT !.cq = Append(@, component)] ELSE w

RECURSIVE diff(_, _, _, _, _), diffChildren(_, _, _, _, _, _),
          placeLoop(_, _, _, _, _, _, _, _, _), unmount(_, _, _),
          unmountEach(_, _, _, _)

\* unmount that leaves the DOM nodes in place
unmount_keepDom(w, v, skipRemove) ==
  IF v = 0 \/ w.err # "" THEN w
  ELSE LET vnode == w.vn[v]
           w1 == IF vnode.component # 0 THEN runCleanups(w, vnode.component) ELSE w
           w3 == unmountEach(applyRef(w1, vnode.ref, NullRef), vnode.children, 1, TRUE)
       IN [w3 EXCEPT !.vn[v].dom = 0, !.vn[v].component = 0, !.vn[v].children = <<>>]

\* unmount that treats a portal like any vnode without a DOM node
unmount_noPortal(w, v, skipRemove) ==
  IF v = 0 \/ w.err # "" THEN w
  ELSE LET vnode == w.vn[v]
           w1 == IF vnode.component # 0 THEN runCleanups(w, vnode.component) ELSE w
           wr == applyRef(w1, vnode.ref, NullRef)
           w2 == IF ~skipRemove /\ vnode.dom # 0 THEN remove(wr, vnode.dom) ELSE wr
           w3 == unmountEach(w2, vnode.children, 1, skipRemove \/ vnode.dom # 0)
       IN [w3 EXCEPT !.vn[v].dom = 0, !.vn[v].component = 0, !.vn[v].children = <<>>]

\* unmount(vnode, ancestorVNode, skipRemove); ancestorVNode is only passed
\* down and never read
unmount(w, v, skipRemove) ==
  IF v = 0 \/ w.err # "" THEN w
  ELSE LET vnode == w.vn[v]
           w1 == IF vnode.component # 0 THEN runCleanups(w, vnode.component) ELSE w
           wr == applyRef(w1, vnode.ref, NullRef)
           w2 == IF ~skipRemove /\ vnode.dom # 0 THEN remove(wr, vnode.dom) ELSE wr
           isPortal == vnode.type = PORTAL_TYPE
           skipChildRemove == IF isPortal THEN FALSE ELSE (skipRemove \/ vnode.dom # 0)
           w3 == unmountEach(w2, vnode.children, 1, skipChildRemove)
       IN [w3 EXCEPT !.vn[v].dom = 0, !.vn[v].component = 0, !.vn[v].children = <<>>]

\* the loops that unmount a list of vnodes one after the other
unmountEach(w, vs, i, skipRemove) ==
  IF i > Len(vs) THEN w
  ELSE unmountEach(unmount(w, vs[i], skipRemove), vs, i + 1, skipRemove)

diffTextNode(w, parentDom, newV, oldV, oldDom) ==
  LET newText == w.vn[newV].props.text IN
  IF oldV # 0 /\ w.vn[oldV].type = TEXT /\ w.vn[oldV].dom # 0
  THEN LET d  == w.vn[oldV].dom
           w1 == IF w.vn[oldV].props.text # newText
                 THEN [w EXCEPT !.dom[d].text = newText] ELSE w
       IN [w1 EXCEPT !.vn[newV].dom = d]
  ELSE LET d  == Len(w.dom) + 1 IN
       Bind([createNode(w, TEXT, newText) EXCEPT !.vn[newV].dom = d], LAMBDA w2 :
       Bind(IF oldDom # 0 THEN insertBefore(w2, parentDom, d, oldDom)
            ELSE appendChild(w2, parentDom, d), LAMBDA w3 :
       IF w3.err = "" /\ oldV # 0 /\ w3.vn[oldV].dom # 0
       THEN unmount(w3, oldV, TRUE) ELSE w3))

\* a fresh component instance: the new component is Len(w.cm) + 1
\* (list, pendingEffects and pendingLayoutEffects are __hooks._list,
\* ._pendingEffects and ._pendingLayoutEffects; the last does not exist
\* until useLayoutEffect creates it; subs is _contextSubscriptions)
NewComponent(v) ==
  [props |-> Nil, vnode |-> v, list |-> <<>>, pendingEffects |-> <<>>,
   pendingLayoutEffects |-> <<>>, layoutEffectsDefined |-> FALSE, subs |-> <<>>]

\* diffComponent that makes a new instance on every render
diffComponent_fresh(w, parentDom, newV, oldV, oldDom) ==
  LET newType == w.vn[newV].type
      reuse == FALSE
      component == IF reuse THEN w.vn[oldV].component ELSE Len(w.cm) + 1
      w1 == IF reuse THEN w
            ELSE LET wc == [w EXCEPT !.cm = Append(@, NewComponent(newV))] IN
                 IF oldV # 0 /\ w.vn[oldV].component # 0
                 THEN runCleanups(wc, w.vn[oldV].component) ELSE wc
      w2 == [w1 EXCEPT !.cm[component].props = w.vn[newV].props,
                       !.cm[component].vnode = newV,
                       !.vn[newV].component = component]
  IN Bind(CallBody(setCurrentComponent(w2, component), newType, w.vn[newV].props, "diff"),
          LAMBDA w3 :
     IF w3.err # "" THEN finallyClear(w3) ELSE
     Bind(diffChildren(setCurrentComponent(w3, 0), parentDom,
                       Rendered(w3, component, newType, w.vn[newV].props), newV, oldV, oldDom),
          LAMBDA w4 :
     IF w4.err # "" THEN w4
     ELSE pushRef(pushCommit(w4, component), newV, oldV, ComponentRef(component))))

\* diffComponent that queues the component for the commit before its
\* children are diffed
diffComponent_pushFirst(w, parentDom, newV, oldV, oldDom) ==
  LET newType == w.vn[newV].type
      reuse == oldV # 0 /\ w.vn[oldV].component # 0 /\ w.vn[oldV].type = newType
      component == IF reuse THEN w.vn[oldV].component ELSE Len(w.cm) + 1
      w1 == IF reuse THEN w
            ELSE LET wc == [w EXCEPT !.cm = Append(@, NewComponent(newV))] IN
                 IF oldV # 0 /\ w.vn[oldV].component # 0
                 THEN runCleanups(wc, w.vn[oldV].component) ELSE wc
      w2 == [w1 EXCEPT !.cm[component].props = w.vn[newV].props,
                       !.cm[component].vnode = newV,
                       !.vn[newV].component = component]
  IN Bind(CallBody(setCurrentComponent(w2, component), newType, w.vn[newV].props, "diff"),
          LAMBDA w3 :
     IF w3.err # "" THEN finallyClear(w3) ELSE
     Bind(diffChildren(pushCommit(setCurrentComponent(w3, 0), component), parentDom,
                       Rendered(w3, component, newType, w.vn[newV].props), newV, oldV, oldDom),
          LAMBDA w4 :
     IF w4.err # "" THEN w4
     ELSE pushRef(w4, newV, oldV, ComponentRef(component))))

diffComponent(w, parentDom, newV, oldV, oldDom) ==
  LET newType == w.vn[newV].type
      reuse == oldV # 0 /\ w.vn[oldV].component # 0 /\ w.vn[oldV].type = newType
      component == IF reuse THEN w.vn[oldV].component ELSE Len(w.cm) + 1
      w1 == IF reuse THEN w
            ELSE LET wc == [w EXCEPT !.cm = Append(@, NewComponent(newV))] IN
                 IF oldV # 0 /\ w.vn[oldV].component # 0
                 THEN runCleanups(wc, w.vn[oldV].component) ELSE wc
      w2 == [w1 EXCEPT !.cm[component].props = w.vn[newV].props,
                       !.cm[component].vnode = newV,
                       !.vn[newV].component = component]
  IN Bind(CallBody(setCurrentComponent(w2, component), newType, w.vn[newV].props, "diff"),
          LAMBDA w3 :
     IF w3.err # "" THEN finallyClear(w3) ELSE
     Bind(diffChildren(setCurrentComponent(w3, 0), parentDom,
                       Rendered(w3, component, newType, w.vn[newV].props), newV, oldV, oldDom),
          LAMBDA w4 :
     IF w4.err # "" THEN w4
     ELSE pushRef(pushCommit(w4, component), newV, oldV, ComponentRef(component))))

\* a handler value that is truthy
IsHandler(value) == value \in HandlerFns
\* what reading a prop gives: undefined when the object does not have it
PropValue(props, name) == IF props[name] = ABSENT THEN "undefined" ELSE props[name]

\* setEventHandler that registers the proxy again when the handler changes
setEventHandler_rebind(w, dom, name, value, oldValue) ==
  LET eventName == EventNameOf[name]
      w1 == [w EXCEPT !.dom[dom].listeners[eventName] = value]
  IN IF IsHandler(value) /\ ~IsHandler(oldValue)
     THEN LogOp([w1 EXCEPT !.dom[dom].proxies = @ \cup {eventName}],
                "addEventListener", dom, 0, eventName)
     ELSE IF ~IsHandler(value) /\ IsHandler(oldValue)
     THEN LogOp([w1 EXCEPT !.dom[dom].proxies = @ \ {eventName}],
                "removeEventListener", dom, 0, eventName)
     ELSE IF value # oldValue
     THEN LogOp(LogOp(w1, "removeEventListener", dom, 0, eventName),
                "addEventListener", dom, 0, eventName)
     ELSE w1

setEventHandler(w, dom, name, value, oldValue) ==
  LET eventName == EventNameOf[name]
      w1 == [w EXCEPT !.dom[dom].listeners[eventName] = value]
  IN IF IsHandler(value) /\ ~IsHandler(oldValue)
     THEN LogOp([w1 EXCEPT !.dom[dom].proxies = @ \cup {eventName}],
                "addEventListener", dom, 0, eventName)
     ELSE IF ~IsHandler(value) /\ IsHandler(oldValue)
     THEN LogOp([w1 EXCEPT !.dom[dom].proxies = @ \ {eventName}],
                "removeEventListener", dom, 0, eventName)
     ELSE w1

\* setProperty for an event prop: name[0] = 'o' and name[1] = 'n'
setProperty(w, dom, name, value, oldValue) == setEventHandler(w, dom, name, value, oldValue)

\* the props of oldProps that are not in newProps are set to null, then
\* the props of newProps that differ from the old value are set
RECURSIVE diffProps_removed(_, _, _, _, _)
diffProps_removed(w, dom, newProps, oldProps, names) ==
  IF names = {} THEN w
  ELSE LET propName == CHOOSE n \in names : TRUE
           w1 == IF oldProps[propName] # ABSENT /\ newProps[propName] = ABSENT
                 THEN setProperty(w, dom, propName, "null", oldProps[propName])
                 ELSE w
       IN diffProps_removed(w1, dom, newProps, oldProps, names \ {propName})

RECURSIVE diffProps_set(_, _, _, _, _)
diffProps_set(w, dom, newProps, oldProps, names) ==
  IF names = {} THEN w
  ELSE LET propName == CHOOSE n \in names : TRUE
           newValue == newProps[propName]
           oldValue == PropValue(oldProps, propName)
           w1 == IF newValue # ABSENT /\ newValue # oldValue
                 THEN setProperty(w, dom, propName, newValue, oldValue)
                 ELSE w
       IN diffProps_set(w1, dom, newProps, oldProps, names \ {propName})

diffProps(w, dom, newProps, oldProps) ==
  diffProps_set(diffProps_removed(w, dom, newProps, oldProps, EventProps),
                dom, newProps, oldProps, EventProps)

\* eventProxy on node n for an event of type e: the current handler of the
\* element's listener map is called
eventProxy(w, n, e) ==
  IF IsHandler(w.dom[n].listeners[e])
  THEN Note(w, "handler", n, 0, w.dom[n].listeners[e], <<>>, e)
  ELSE w

\* an event of type e dispatched at node n: the listeners of n and of its
\* ancestors are called from n upwards
RECURSIVE dispatchEvent(_, _, _)
dispatchEvent(w, n, e) ==
  IF n = 0 THEN w
  ELSE dispatchEvent(IF e \in w.dom[n].proxies THEN eventProxy(w, n, e) ELSE w,
                     w.dom[n].parent, e)

diffElementNode(w, parentDom, newV, oldV, oldDom) ==
  LET newType == w.vn[newV].type
      reuse == oldV # 0 /\ w.vn[oldV].type = newType /\ w.vn[oldV].dom # 0
      d  == IF reuse THEN w.vn[oldV].dom ELSE Len(w.dom) + 1
  IN Bind(IF reuse THEN w
          ELSE Bind(createNode(w, newType, ""), LAMBDA wc :
               Bind(IF oldDom # 0 THEN insertBefore(wc, parentDom, d, oldDom)
                    ELSE appendChild(wc, parentDom, d), LAMBDA wi :
               IF oldV # 0 /\ wi.vn[oldV].dom # 0 THEN unmount(wi, oldV, FALSE) ELSE wi)),
          LAMBDA w1 :
     IF w1.err # "" THEN w1
     ELSE Bind(diffProps([w1 EXCEPT !.vn[newV].dom = d], d, w.vn[newV].props.on,
                         IF oldV # 0 THEN w.vn[oldV].props.on ELSE NoHandlers),
               LAMBDA w2 :
          Bind(diffChildren(w2, d, w.vn[newV].props.kids, newV, oldV, firstChild(w2, d)),
               LAMBDA w3 :
          IF w3.err # "" THEN w3 ELSE pushRef(w3, newV, oldV, DomRef(d)))))

\* diffPortal that leaves the old children where they are when the
\* container changes
diffPortal_keepOld(w, parentDom, newV, oldV, oldDom) ==
  LET newContainer == w.vn[newV].props.container
      oldContainer == IF oldV # 0 THEN w.vn[oldV].props.container ELSE 0
      containerChanged == oldV # 0 /\ w.vn[oldV].type = PORTAL_TYPE
                          /\ oldContainer # newContainer
  IN Bind(diffChildren(w, newContainer, w.vn[newV].props.kids, newV,
                       IF containerChanged THEN 0 ELSE oldV,
                       IF containerChanged THEN firstChild(w, newContainer)
                       ELSE IF oldV # 0 THEN 0 ELSE firstChild(w, newContainer)),
          LAMBDA w2 :
     IF w2.err # "" THEN w2
     ELSE pushRef([w2 EXCEPT !.vn[newV].dom = 0], newV, oldV, DomRef(newContainer)))

diffPortal(w, parentDom, newV, oldV, oldDom) ==
  LET newContainer == w.vn[newV].props.container
      oldContainer == IF oldV # 0 THEN w.vn[oldV].props.container ELSE 0
      containerChanged == oldV # 0 /\ w.vn[oldV].type = PORTAL_TYPE
                          /\ oldContainer # newContainer
  IN Bind(IF containerChanged THEN unmountEach(w, w.vn[oldV].children, 1, FALSE) ELSE w,
          LAMBDA w1 :
     Bind(diffChildren(w1, newContainer, w.vn[newV].props.kids, newV,
                       IF containerChanged THEN 0 ELSE oldV,
                       IF containerChanged THEN firstChild(w1, newContainer)
                       ELSE IF oldV # 0 THEN 0 ELSE firstChild(w1, newContainer)),
          LAMBDA w2 :
     IF w2.err # "" THEN w2
     ELSE pushRef([w2 EXCEPT !.vn[newV].dom = 0], newV, oldV, DomRef(newContainer))))

\* diff(parentDom, newVNode, oldVNode, namespace, commitQueue, oldDom,
\* refQueue); oldV = 0 stands for a null or empty ({}) old vnode
diff(w, parentDom, newV, oldV, oldDom) ==
  IF w.err # "" THEN w
  ELSE IF newV = 0 THEN (IF oldV # 0 THEN unmount(w, oldV, FALSE) ELSE w)
  ELSE LET newType == w.vn[newV].type IN
       IF newType = TEXT THEN diffTextNode(w, parentDom, newV, oldV, oldDom)
       ELSE IF newType \in Functions THEN diffComponent(w, parentDom, newV, oldV, oldDom)
       ELSE IF newType = PORTAL_TYPE THEN diffPortal(w, parentDom, newV, oldV, oldDom)
       ELSE IF newType \in Tags THEN diffElementNode(w, parentDom, newV, oldV, oldDom)
       ELSE w

\* a matched child is never moved
needsMove_never(w, oldChild, previousNewDom, firstDom) == FALSE
\* every matched child after the first is moved
needsMove_always(w, oldChild, previousNewDom, firstDom) ==
  oldChild # 0 /\ previousNewDom # 0

\* a matched child is moved when its first DOM node does not directly
\* follow the last DOM node placed before it
needsMove(w, oldChild, previousNewDom, firstDom) ==
  oldChild # 0 /\ previousNewDom # 0 /\ previousSibling(w, firstDom) # previousNewDom

\* the parent relationship that gives the child its parent's depth
setParent_sameDepth(w, newChild, newParentVNode, i) ==
  [w EXCEPT !.vn[newChild].parent = newParentVNode,
            !.vn[newChild].depth = w.vn[newParentVNode].depth,
            !.vn[newChild].index = i - 1]
\* "Set parent relationship": _parent, _depth and _index of a new child
setParent(w, newChild, newParentVNode, i) ==
  [w EXCEPT !.vn[newChild].parent = newParentVNode,
            !.vn[newChild].depth = w.vn[newParentVNode].depth + 1,
            !.vn[newChild].index = i - 1]

\* Phase 3 of diffChildren: diff and place the new children from index i on
placeLoop(w, parentDom, newChildren, matchedOldChildren, toUnmount, newParentVNode, oldDom, i, previousNewDom) ==
  IF i > Len(newChildren) \/ w.err # "" THEN w
  ELSE LET newChild == newChildren[i]
           oldChild == matchedOldChildren[i]
       IN Bind(setParent(w, newChild, newParentVNode, i), LAMBDA w1 :
          Bind(IF previousNewDom # 0 THEN nextSibling(w1, previousNewDom)
               ELSE IF \E u \in SeqToSet(toUnmount) : getFirstDom(w1, u) = oldDom
               THEN 0 ELSE oldDom, LAMBDA refDom :
          Bind(diff(w1, parentDom, newChild, oldChild, refDom), LAMBDA w2 :
          Bind(getFirstDom(w2, newChild), LAMBDA firstDom :
          Bind(getLastDom(w2, newChild), LAMBDA lastDom :
          IF w2.err # "" THEN w2
          ELSE placeLoop(IF firstDom # 0 /\ needsMove(w2, oldChild, previousNewDom, firstDom)
                         THEN placeChild(w2, parentDom, newChild, refDom) ELSE w2,
                         parentDom, newChildren, matchedOldChildren, toUnmount,
                         newParentVNode, oldDom, i + 1,
                         IF firstDom # 0 THEN (IF lastDom # 0 THEN lastDom ELSE firstDom)
                         ELSE previousNewDom))))))

\* diffChildren that leaves the old children alone when there are no new
\* children
diffChildren_keepOld(w, parentDom, renderResult, newParentVNode, oldParentVNode, oldDom) ==
  LET oldChildren == IF oldParentVNode = 0 THEN <<>> ELSE w.vn[oldParentVNode].children
      normalized == normalizeChildren(renderResult)
      base == Len(w.vn)
      newChildren == [i \in 1..Len(normalized) |-> base + i]
  IN Bind([cloneAll(w, normalized) EXCEPT !.vn[newParentVNode].children = newChildren],
          LAMBDA w1 :
     IF Len(newChildren) = 0 THEN w1
     ELSE Bind(matchChildren([i \in 1..Len(oldChildren) |-> w1.vn[oldChildren[i]]],
                             [i \in 1..Len(newChildren) |-> w1.vn[newChildren[i]]],
                             1, {}, <<>>), LAMBDA matchedIndex :
          Bind([i \in 1..Len(newChildren) |->
                  IF matchedIndex[i] = 0 THEN 0 ELSE oldChildren[matchedIndex[i]]],
               LAMBDA matchedOldChildren :
          Bind(SelectSeq(oldChildren, LAMBDA v :
                           \E j \in 1..Len(oldChildren) :
                             j \notin SeqToSet(matchedIndex) /\ oldChildren[j] = v),
               LAMBDA toUnmount :
          unmountEach(placeLoop(w1, parentDom, newChildren, matchedOldChildren, toUnmount,
                                newParentVNode, oldDom, 1, 0),
                      toUnmount, 1, FALSE)))))

diffChildren(w, parentDom, renderResult, newParentVNode, oldParentVNode, oldDom) ==
  LET oldChildren == IF oldParentVNode = 0 THEN <<>> ELSE w.vn[oldParentVNode].children
      normalized == normalizeChildren(renderResult)
      base == Len(w.vn)
      newChildren == [i \in 1..Len(normalized) |-> base + i]
  IN Bind([cloneAll(w, normalized) EXCEPT !.vn[newParentVNode].children = newChildren],
          LAMBDA w1 :
     IF Len(newChildren) = 0 THEN unmountEach(w1, oldChildren, 1, FALSE)
     ELSE Bind(matchChildren([i \in 1..Len(oldChildren) |-> w1.vn[oldChildren[i]]],
                             [i \in 1..Len(newChildren) |-> w1.vn[newChildren[i]]],
                             1, {}, <<>>), LAMBDA matchedIndex :
          Bind([i \in 1..Len(newChildren) |->
                  IF matchedIndex[i] = 0 THEN 0 ELSE oldChildren[matchedIndex[i]]],
               LAMBDA matchedOldChildren :
          Bind(SelectSeq(oldChildren, LAMBDA v :
                           \E j \in 1..Len(oldChildren) :
                             j \notin SeqToSet(matchedIndex) /\ oldChildren[j] = v),
               LAMBDA toUnmount :
          unmountEach(placeLoop(w1, parentDom, newChildren, matchedOldChildren, toUnmount,
                                newParentVNode, oldDom, 1, 0),
                      toUnmount, 1, FALSE)))))

\* the three loops of commitRoot
RECURSIVE applyRefs(_, _, _)
applyRefs(w, refQueue, i) ==
  IF i > Len(refQueue) THEN w
  ELSE LET e == refQueue[i] IN
       applyRefs(applyRef(IF e.oldRef # NoRef /\ e.oldRef # e.ref
                          THEN applyRef(w, e.oldRef, NullRef) ELSE w,
                          e.ref, e.value),
                 refQueue, i + 1)
RECURSIVE runLayoutEffects(_, _, _)
runLayoutEffects(w, commitQueue, i) ==
  IF i > Len(commitQueue) \/ w.err # "" THEN w
  ELSE runLayoutEffects(runPendingLayoutEffects(w, commitQueue[i]), commitQueue, i + 1)
RECURSIVE runEffectsOf(_, _, _)
runEffectsOf(w, commitQueue, i) ==
  IF i > Len(commitQueue) \/ w.err # "" THEN w
  ELSE runEffectsOf(runPendingEffects(w, commitQueue[i]), commitQueue, i + 1)

\* afterPaint that runs the callback at once
afterPaint_sync(w, commitQueue) == runEffectsOf(w, commitQueue, 1)
\* the host timers one call of afterPaint makes: setTimeout(done, 35),
\* requestAnimationFrame(done), and the setTimeout(callback) tasks that done
\* queued (tasks) and the host has run (ran)
NewTimers(callback) ==
  [callback |-> callback, timeout |-> "set", raf |-> "requested", tasks |-> 0, ran |-> 0]
\* afterPaint(callback) (hooks.js): the callback of commitRoot is named by
\* the commitQueue it closes over; the host runs it in a later task
afterPaint(w, commitQueue) ==
  [w EXCEPT !.paints = Append(@, commitQueue),
            !.timers = Append(@, NewTimers(commitQueue))]
\* done that cancels neither the timer nor the frame
done_keepOther(w, k) == [w EXCEPT !.timers[k].tasks = @ + 1]
\* done of the k-th afterPaint call: clearTimeout(timeout),
\* cancelAnimationFrame(raf), setTimeout(callback); cancelling what has
\* fired does nothing
done(w, k) ==
  [w EXCEPT !.timers[k].timeout = IF @ = "set" THEN "cleared" ELSE @,
            !.timers[k].raf = IF @ = "requested" THEN "cancelled" ELSE @,
            !.timers[k].tasks = @ + 1]
\* the host fires the 35 ms timer / the animation frame of the k-th call
timeoutFires(w, k) == done([w EXCEPT !.timers[k].timeout = "fired"], k)
frameFires(w, k) == done([w EXCEPT !.timers[k].raf = "fired"], k)
\* the place of the k-th call's callback among those not run yet
PendingIndex(timers, k) == Cardinality({j \in 1..k : timers[j].ran = 0})

\* commitRoot with the layout effects run before the refs are applied
commitRoot_layoutFirst(w) ==
  Bind(applyRefs(runLayoutEffects(w, w.cq, 1), w.rq, 1), LAMBDA w1 :
  [(IF w.cq # <<>> /\ w1.err = "" THEN afterPaint(w1, w.cq) ELSE w1)
     EXCEPT !.cq = <<>>, !.rq = <<>>])

\* commitRoot(commitQueue, rootVNode, refQueue): applies the queued refs,
\* runs the layout effects and schedules the post-paint effects.  The two
\* queues are locals of the caller: they are gone when the commit returns.
\* An exception from a layout effect leaves before afterPaint is called.
commitRoot(w) ==
  Bind(runLayoutEffects(applyRefs(w, w.rq, 1), w.cq, 1), LAMBDA w1 :
  [(IF w.cq # <<>> /\ w1.err = "" THEN afterPaint(w1, w.cq) ELSE w1)
     EXCEPT !.cq = <<>>, !.rq = <<>>])

\* ------------------------------------------------------------------------
\* Render entry (render.js)
\* ------------------------------------------------------------------------
\* render(vnode, container); tree = Nil is render(null, container)
render(w, tree, container) ==
  LET oldVNode == w.dom[container].vnode
      newVNode == Len(w.vn) + 1
  IN Bind([createVNode(w, H("Fragment", NoKey, <<tree>>))
             EXCEPT !.vn[newVNode].dom = container,
                    !.dom[container].vnode = newVNode,
                    !.cq = <<>>, !.rq = <<>>], LAMBDA w2 :
     Bind(diff(w2, container, newVNode, oldVNode, firstChild(w2, container)), LAMBDA w3 :
     IF w3.err # "" THEN w3 ELSE commitRoot(w3)))

\* ------------------------------------------------------------------------
\* Scheduler drain (scheduler.js)
\* ------------------------------------------------------------------------
RECURSIVE getParentDomFrom(_, _)
getParentDomFrom(w, parent) ==
  IF parent = 0 THEN 0
  ELSE IF w.vn[parent].dom # 0 THEN w.vn[parent].dom
  ELSE getParentDomFrom(w, w.vn[parent].parent)
getParentDom(w, v) == getParentDomFrom(w, w.vn[v].parent)

renderComponent(w, component) ==
  LET vnode == w.cm[component].vnode IN
  IF vnode = 0 THEN w
  ELSE LET parentDom == getParentDom(w, vnode) IN
       IF parentDom = 0 THEN w
       ELSE Bind(CallBody(setCurrentComponent([w EXCEPT !.cq = <<>>, !.rq = <<>>], component),
                          w.vn[vnode].type, w.cm[component].props, "scheduler"), LAMBDA w1 :
            IF w1.err # "" THEN finallyClear(w1) ELSE
            Bind(Rendered(w1, component, w.vn[vnode].type, w.cm[component].props),
                 LAMBDA rendered :
            Bind(setCurrentComponent(w1, 0), LAMBDA w2 :
            Bind(diffChildren(w2, parentDom, rendered, vnode, vnode, getFirstDom(w2, vnode)),
                 LAMBDA w3 :
            IF w3.err # "" THEN w3 ELSE commitRoot(pushCommit(w3, component))))))

\* the depth the queue is sorted by
depthOf(w, c) == IF w.cm[c].vnode # 0 THEN w.vn[w.cm[c].vnode].depth ELSE 0

\* Array.prototype.sort with (a, b) => depthA - depthB: a stable sort
RECURSIVE sortByDepth(_, _)
insertByDepth(w, sorted, c) ==
  LET k == Cardinality({i \in 1..Len(sorted) : depthOf(w, sorted[i]) <= depthOf(w, c)})
  IN InsertAt(sorted, k + 1, c)
\* the queue left in enqueue order
sortByDepth_unsorted(w, q) == q
sortByDepth(w, q) ==
  IF q = <<>> THEN <<>>
  ELSE insertByDepth(w, sortByDepth(w, SubSeq(q, 1, Len(q) - 1)), Last(q))

\* while ((component = renderQueue.shift())) { ... }
RECURSIVE drainLoop(_)
drainLoop(w) ==
  IF w.q = <<>> \/ w.err # "" THEN w
  ELSE LET component == Head(w.q)
           w1 == [w EXCEPT !.q = Tail(@)]
       IN IF w1.cm[component].vnode = 0 THEN drainLoop(w1)
          ELSE drainLoop(renderComponent(w1, component))

processRenderQueue(w) ==
  LET w1 == [w EXCEPT !.sched = FALSE]
      w2 == [w1 EXCEPT !.q = sortByDepth(w1, w1.q)]
  IN drainLoop(w2)

\* ------------------------------------------------------------------------
\* State
\* ------------------------------------------------------------------------
VARIABLES
  vnodes,            \* heap of vnodes
  doms,              \* heap of DOM nodes (the containers included)
  comps,             \* heap of component instances
  renderQueue,       \* scheduler.js: renderQueue
  scheduled,         \* scheduler.js: scheduled
  microtasks,        \* processRenderQueue microtasks queued and not yet run
  currentComponent,  \* hooks.js: currentComponent
  currentIndex,      \* hooks.js: currentIndex
  ops,               \* DOM operations the last operation performed
  calls,             \* component bodies the last operation invoked
  thrown,            \* the error the last operation threw ("" = none)
  hist,              \* the operations made so far, with their arguments
  refs,              \* the ref objects: what each one's current holds
  afterPaintQueue,   \* afterPaint callbacks the host has not run yet
  trace,             \* hook, effect, cleanup and ref events made so far
  store,             \* the external store: its state and its listeners
  timers,            \* the host timers of every afterPaint call made so far
  made,              \* a call of h: its arguments and the vnode it returned
  family,            \* the set of trees this run renders
  steps, renders     \* operations / render calls made so far

vars == <<vnodes, doms, comps, renderQueue, scheduled, microtasks,
          currentComponent, currentIndex, ops, calls, thrown, hist,
          refs, afterPaintQueue, trace, store, timers, made, family, steps,
          renders>>

\* the world an operation starts in
World ==
  [vn |-> vnodes, dom |-> doms, cm |-> comps, q |-> renderQueue,
   sched |-> scheduled, mt |-> microtasks, cur |-> currentComponent,
   idx |-> currentIndex, ops |-> <<>>, calls |-> <<>>, err |-> "",
   refs |-> refs, paints |-> afterPaintQueue, trace |-> trace,
   cq |-> <<>>, rq |-> <<>>, now |-> steps + 1, store |-> store,
   timers |-> timers]

\* the state an operation leaves
Becomes(w, op) ==
  /\ vnodes' = w.vn /\ doms' = w.dom /\ comps' = w.cm
  /\ renderQueue' = w.q /\ scheduled' = w.sched /\ microtasks' = w.mt
  /\ currentComponent' = w.cur /\ currentIndex' = w.idx
  /\ ops' = w.ops /\ calls' = w.calls /\ thrown' = w.err
  /\ refs' = w.refs /\ afterPaintQueue' = w.paints /\ trace' = w.trace
  /\ hist' = Append(hist, op)
  /\ steps' = steps + 1
  /\ store' = w.store
  /\ timers' = w.timers
  /\ made' = made
  /\ family' = family

Op(name, c, arg) == [name |-> name, c |-> c, arg |-> arg]
\* the last operation made ("init" before the first)
lastOp == IF hist = <<>> THEN Op("init", 0, "") ELSE Last(hist)

\* ------------------------------------------------------------------------
\* The trees a run renders
\* ------------------------------------------------------------------------
Li(k) == H("li", k, <<Txt(k)>>)
Span(t) == H("span", NoKey, <<Txt(t)>>)

\* sequences of length 0..n over S, and those that repeat no key
SeqsUpTo(S, n) == UNION {[1..k -> S] : k \in 0..n}
DistinctKeys(l) == \A i, j \in 1..Len(l) : l[i].key = l[j].key => i = j

\* keyed children: three elements and a fragment that owns two DOM nodes
KeyedItems == {Li("a"), Li("b"), Li("c"),
               H("Fragment", "d", <<Span("d1"), Span("d2")>>)}
\* children that differ in type: unkeyed and keyed ones
TypedItems == {H("div", NoKey, <<>>), H("span", NoKey, <<>>),
               H("li", "a", <<>>), H("span", "a", <<>>)}
\* one child of every kind: element, text, component, fragment, portal
KindItems == {Span("s"), Txt("t"), H("Show", NoKey, <<>>),
              H("Fragment", NoKey, <<Span("f1"), Span("f2")>>),
              createPortal(<<H("p", NoKey, <<>>)>>, Target)}

Ul(kids) == H("ul", NoKey, kids)

\* applications with stateful components: a parent P and a descendant D
\* that stays mounted, a parent whose state unmounts D, and two siblings
Apps == {
  H("div", NoKey, <<H("Show", NoKey, <<H("Red", NoKey, <<>>)>>)>>),
  H("Pick", NoKey, <<H("Show", NoKey, <<>>), Span("off")>>),
  H("Fragment", NoKey, <<H("Red", NoKey, <<>>), H("Show", NoKey, <<>>)>>) }

\* applications with effects and refs: a component with a layout and a
\* post-paint effect whose deps follow a prop, alone and under an element
\* that carries a ref and changes type
E(dep) == Desc("Eff", NoKey, dep, <<>>, 0)
EffApps == {
  E("a"), E("b"),
  WithRef(H("div", NoKey, <<E("a")>>), "r1"),
  WithRef(H("span", NoKey, <<E("a")>>), "r1") }

\* two sibling elements, each with or without a ref; no ref is attached twice
RefItems == {WithRef(H(t, NoKey, <<>>), r) : t \in {"div", "span"}, r \in RefNames \cup {NoRef}}
RefApps == {H("Fragment", NoKey, l) : l \in {l \in SeqsUpTo(RefItems, 2) :
              \A i, j \in 1..Len(l) : (l[i].ref # NoRef /\ l[i].ref = l[j].ref) => i = j}}

\* applications with a context: consumers outside every Provider, inside
\* one, and inside two nested ones (rendered as an array of two roots); a
\* Provider whose value changes; a Provider that loses its consumer
P(value, kids) == Desc("Provider", NoKey, value, kids, 0)
U == H("Use", NoKey, <<>>)
CtxApps == {
  Arr(<<U, P("v1", <<U, P("v2", <<U>>)>>)>>),
  P("v1", <<U>>), P("v2", <<U>>), P("v1", <<>>) }

\* applications with a portal into Target: below an element that stays,
\* is replaced or goes away, with stateful components inside the portal
PortalApps == {
  H("div", NoKey, <<createPortal(<<H("Pick", NoKey, <<Span("on"), H("p", NoKey, <<>>)>>)>>, Target)>>),
  H("div", NoKey, <<createPortal(<<H("Show", NoKey, <<>>), H("p", NoKey, <<>>)>>, Target)>>),
  H("span", NoKey, <<createPortal(<<H("p", NoKey, <<Txt("x")>>)>>, Target)>>),
  H("div", NoKey, <<>>),
  createPortal(<<Span("top")>>, Target) }

\* ---- h(type, props, ...children) ----
\* A value passed to h: a string, number, null, undefined, boolean or
\* vnode (val names it) or an array of such values (items).
Atom(v) == [arr |-> FALSE, val |-> v, items |-> <<>>]
Array(items) == [arr |-> TRUE, val |-> "", items |-> items]
Dropped == {"null", "undefined", "true", "false"}

\* flattenChildren that looks at the top level only: a nested array is
\* kept as one child
RECURSIVE flattenChildren_shallow(_)
flattenChildren_shallow(children) ==
  IF children = <<>> THEN <<>>
  ELSE LET child == Head(children) IN
       (IF ~child.arr /\ child.val \in Dropped THEN <<>> ELSE <<child>>)
       \o flattenChildren_shallow(Tail(children))

RECURSIVE flattenChildren(_)
flattenChildren(children) ==
  IF children = <<>> THEN <<>>
  ELSE LET child == Head(children) IN
       (IF ~child.arr /\ child.val \in Dropped THEN <<>>
        ELSE IF child.arr THEN flattenChildren(child.items)
        ELSE <<child>>)
       \o flattenChildren(Tail(children))

\* h(type, props, ...children); props is null or an object, an object is
\* a function from its own property names to their values
h(type, props, children) ==
  LET normalizedProps == IF props.isNull THEN <<>> ELSE props.obj
      has(n) == n \in DOMAIN normalizedProps /\ normalizedProps[n] # Atom("undefined")
      key == IF has("key") THEN normalizedProps["key"] ELSE Atom("null")
      ref == IF has("ref") THEN normalizedProps["ref"] ELSE Atom("null")
      flatChildren == flattenChildren(children)
      names == (DOMAIN normalizedProps \ {"key", "ref"})
               \cup (IF Len(flatChildren) > 0 THEN {"children"} ELSE {})
      finalProps == [n \in names |->
                       IF n = "children" /\ Len(flatChildren) > 0
                       THEN (IF Len(flatChildren) = 1 THEN flatChildren[1]
                             ELSE Array(flatChildren))
                       ELSE normalizedProps[n]]
  IN [type |-> type, props |-> finalProps, key |-> key, ref |-> ref]

\* the calls of h that are tried: props null or an object with any of key,
\* ref, className and children, and up to MaxArgs children that are
\* values or arrays nested up to two deep
MaxArgs == 2
ChildAtoms == {Atom(v) : v \in {"a", "b"} \cup Dropped}
NestedAtoms == {Atom("a"), Atom("null")}
InnerArrays == {Array(l) : l \in SeqsUpTo(NestedAtoms, 2)}
OuterArrays == {Array(l) : l \in SeqsUpTo(NestedAtoms \cup InnerArrays, 2)}
ChildArgs == SeqsUpTo(ChildAtoms \cup OuterArrays, MaxArgs)
\* the objects over the property names ns with values from vals[n]
Objects(vals) ==
  UNION {[ns -> UNION {vals[n] : n \in ns}] : ns \in SUBSET (DOMAIN vals)}
PropValues == [key |-> {Atom("k"), Atom("undefined")}, ref |-> {Atom("r")},
               className |-> {Atom("c")}, children |-> {Atom("x")}]
PropsArgs ==
  {[isNull |-> TRUE, obj |-> <<>>]}
  \cup {[isNull |-> FALSE, obj |-> o] :
          o \in {o \in Objects(PropValues) : \A n \in DOMAIN o : o[n] \in PropValues[n]}}
NoVNode == [type |-> "", props |-> <<>>, key |-> Atom("null"), ref |-> Atom("null")]
NoCall == [props |-> [isNull |-> TRUE, obj |-> <<>>], children |-> <<>>,
           done |-> FALSE, vnode |-> NoVNode]
HCalls == {[props |-> p, children |-> cs, done |-> FALSE, vnode |-> NoVNode] :
             p \in PropsArgs, cs \in ChildArgs}

\* applications whose portal moves between two target containers, with
\* an element and a component with a layout effect as the portal's children
RetargetApps == {
  H("div", NoKey, <<createPortal(<<Span("c"), E("a")>>, t)>>) : t \in {Target, Target2} }
  \cup { createPortal(<<Span("c")>>, t) : t \in {Target, Target2} }

\* a button with handlers for two events, alone and below a div with a
\* click handler of its own
Button(click, input) ==
  WithOn(H("button", NoKey, <<>>), [onClick |-> click, onInput |-> input])
EventApps ==
  { Button(c, i) : c \in HandlerValues \cup {ABSENT}, i \in {"f1", ABSENT} }
  \cup { WithOn(H("div", NoKey, <<Button(c, ABSENT)>>), [onClick |-> "f1", onInput |-> ABSENT]) :
            c \in HandlerFns }
  \cup { H("span", NoKey, <<>>) }

\* a component that reads the external store, alone and below an element
StoreApps == {H("Sync", NoKey, <<>>), H("div", NoKey, <<H("Sync", NoKey, <<>>)>>)}

\* components with effects above and beside one another: a parent with two
\* keyed children, the same with the children swapped and other deps, and
\* a parent with one child beside a sibling below an element
Ek(key, dep, kids) == Desc("Eff", key, dep, kids, 0)
OrderApps == {
  Ek(NoKey, "a", <<Ek("k1", "b", <<>>), Ek("k2", "c", <<>>)>>),
  Ek(NoKey, "x", <<Ek("k2", "y", <<>>), Ek("k1", "z", <<>>)>>),
  Ek(NoKey, "a", <<Ek("k1", "z", <<>>), Ek("k2", "c", <<>>)>>),
  H("div", NoKey, <<Ek(NoKey, "a", <<E("b")>>), E("c")>>) }

\* a component that calls its setter in its body, alone and below an
\* element beside a component that does not
BumpApps == {H("Bump", NoKey, <<>>),
             H("div", NoKey, <<H("Bump", NoKey, <<>>), H("Show", NoKey, <<>>)>>)}

\* a component whose body throws when its prop or its state says so,
\* alone and below an element after a component that does not throw
Boom(text) == Desc("Boom", NoKey, text, <<>>, 0)
BoomApps == {Boom("ok"), Boom("throw"),
             H("div", NoKey, <<H("Show", NoKey, <<>>), Boom("ok")>>),
             H("div", NoKey, <<H("Show", NoKey, <<>>), Boom("throw")>>)}

\* component children: keyed and unkeyed instances of one type, another
\* type under a key of the first, and an element
InstanceKids == 2
InstanceItems == {H("Show", "a", <<>>), H("Show", "b", <<>>), H("Show", NoKey, <<>>),
                  H("Pick", "a", <<>>), Span("s")}
\* the lists of them in which no key occurs twice
InstanceLists ==
  {l \in SeqsUpTo(InstanceItems, InstanceKids) :
     \A i, j \in 1..Len(l) : (l[i].key # NoKey /\ l[i].key = l[j].key) => i = j}

\* components with three layout effects: alone, three siblings whose
\* middle one throws or not, and a parent whose child throws
Lay(text, kids) == Desc("Lay", NoKey, text, kids, 0)
LayApps == {
  Lay("a", <<>>), Lay("throw", <<>>),
  H("div", NoKey, <<Lay("a", <<>>), Lay("throw", <<>>), Lay("b", <<>>)>>),
  H("div", NoKey, <<Lay("b", <<>>), Lay("a", <<>>), Lay("c", <<>>)>>),
  Lay("a", <<Lay("throw", <<>>)>>) }

\* a component that renders one of two elements or nothing, followed by a
\* sibling element: below a div and directly in the root container
Chooser == H("Pick", NoKey, <<Span("on"), H("p", NoKey, <<>>)>>)
SiblingApps == {
  H("div", NoKey, <<Chooser, Span("after")>>),
  Arr(<<Chooser, Span("after")>>) }

\* a component with a layout effect beside a component whose body may
\* throw, in either order, directly in the root container
RecoverApps == {
  Arr(<<E("a"), Boom(t)>>) : t \in {"ok", "throw"} }
  \cup { Arr(<<Boom(t), E("a")>>) : t \in {"ok", "throw"} }

Trees(f) ==
  IF f = "keyed" THEN {Ul(l) : l \in {l \in SeqsUpTo(KeyedItems, MaxKids) : DistinctKeys(l)}}
  ELSE IF f = "typed" THEN {Ul(l) : l \in SeqsUpTo(TypedItems, MaxKids)}
  ELSE IF f = "kinds" THEN {Ul(l) : l \in {l \in SeqsUpTo(KindItems, MaxKids) :
                                             \A i, j \in 1..Len(l) : l[i] = l[j] => i = j}}
  ELSE IF f = "effects" THEN EffApps \cup {Nil}
  ELSE IF f = "refs" THEN RefApps \cup {Nil}
  ELSE IF f = "context" THEN CtxApps \cup {Nil}
  ELSE IF f = "portal" THEN PortalApps \cup {Nil}
  ELSE IF f = "retarget" THEN RetargetApps \cup {Nil}
  ELSE IF f = "events" THEN EventApps \cup {Nil}
  ELSE IF f = "store" THEN StoreApps \cup {Nil}
  ELSE IF f = "h" THEN {Nil}
  ELSE IF f = "boom" THEN BoomApps \cup {Nil}
  ELSE IF f = "lay" THEN LayApps \cup {Nil}
  ELSE IF f = "siblings" THEN SiblingApps \cup {Nil}
  ELSE IF f = "recover" THEN RecoverApps \cup {Nil}
  ELSE IF f = "deps" THEN {E("a"), E("b")}
  ELSE IF f = "timers" THEN {E("a"), E("b"), Nil}
  ELSE IF f = "bump" THEN BumpApps \cup {Nil}
  ELSE IF f = "order" THEN OrderApps \cup {Nil}
  ELSE IF f = "instances"
  THEN {H("div", NoKey, l) : l \in InstanceLists}
  ELSE Apps \cup {Nil}

\* ------------------------------------------------------------------------
\* Initial state and operations
\* ------------------------------------------------------------------------
\* Two containers exist: the render root and a portal target.  The target
\* may already hold a node the engine does not own.
InitHeap(fam) ==
  /\ vnodes = <<>> /\ comps = <<>>
  /\ family \in fam
  /\ \/ doms = <<NewDomNode("div", ""), NewDomNode("div", "")>>
     \/ /\ family \in {"kinds", "portal"}
        /\ doms = <<NewDomNode("div", ""),
                    [NewDomNode("div", "") EXCEPT !.kids = <<3>>],
                    [NewDomNode("hr", "") EXCEPT !.parent = Target]>>
     \/ /\ family = "retarget"
        /\ doms = <<NewDomNode("div", ""), NewDomNode("div", ""), NewDomNode("div", "")>>
  /\ renderQueue = <<>> /\ scheduled = FALSE /\ microtasks = 0
  /\ currentComponent = 0 /\ currentIndex = 0
  /\ ops = <<>> /\ calls = <<>> /\ thrown = ""
  /\ refs = [r \in RefNames |-> NullRef] /\ afterPaintQueue = <<>> /\ trace = <<>>
  /\ hist = <<>>
  /\ store = NewStore /\ timers = <<>>
  /\ IF family = "h" THEN made \in HCalls ELSE made = NoCall
  /\ steps = 0 /\ renders = 0

Init == InitHeap({"apps"})

\* render(tree, container) on the root container
Render(tree) ==
  /\ renders' = renders + 1
  /\ Becomes(render(World, tree, Root), Op("render", 0, ""))
\* a caller renders one of the run's trees
RenderAny ==
  /\ steps < MaxSteps /\ renders < MaxRenders
  /\ \E tree \in Trees(family) : Render(tree)

\* a caller invokes the setter of component c's useState slot
SetState(c, update) ==
  /\ steps < MaxSteps
  /\ Len(comps[c].list) >= 1 /\ comps[c].list[1].kind = "state"
  /\ UNCHANGED renders
  /\ Becomes(setState(World, c, 1, update), Op("setState", c, update))

\* a caller invokes the dispatcher of component c's useReducer slot
Dispatch(c, action) ==
  /\ steps < MaxSteps
  /\ Len(comps[c].list) >= 1 /\ comps[c].list[1].kind = "reducer"
  /\ UNCHANGED renders
  /\ Becomes(dispatch(World, c, 1, action), Op("dispatch", c, action))

\* the host runs a queued processRenderQueue microtask
Microtask ==
  /\ microtasks > 0
  /\ UNCHANGED renders
  /\ Becomes(processRenderQueue([World EXCEPT !.mt = @ - 1]), Op("drain", 0, ""))

\* the host runs a queued setTimeout(callback) task of the k-th afterPaint
\* call: the callback runs the pending effects of its commitQueue
runTask(w, k) ==
  runEffectsOf([w EXCEPT !.timers[k].tasks = @ - 1, !.timers[k].ran = @ + 1,
                         !.paints = IF w.timers[k].ran = 0
                                    THEN RemoveAt(@, PendingIndex(w.timers, k)) ELSE @],
               w.timers[k].callback, 1)
\* the oldest afterPaint call whose callback has not run
Oldest == CHOOSE k \in 1..Len(timers) : timers[k].ran = 0 /\ PendingIndex(timers, k) = 1

\* the host runs the oldest afterPaint callback: the frame of the call
\* fires and the task it queues runs
Paint ==
  /\ afterPaintQueue # <<>>
  /\ UNCHANGED renders
  /\ Becomes(runTask(frameFires(World, Oldest), Oldest), Op("paint", 0, ""))

Next ==
  \/ RenderAny
  \/ \E c \in 1..Len(comps), update \in Updates : SetState(c, update)
  \/ \E c \in 1..Len(comps), action \in ReducerActions : Dispatch(c, action)
  \/ Microtask

Spec == Init /\ [][Next]_vars

\* the child-list specifications: a parent element is rendered with one
\* child list after the other
RenderKids == RenderAny
InitKeyed == InitHeap({"keyed"})
SpecKeyed == InitKeyed /\ [][RenderKids]_vars
InitKids == InitHeap({"typed", "kinds"})
SpecKids == InitKids /\ [][RenderKids]_vars

\* the effect specification: renders, setter calls, drains and paints of
\* applications with effects and refs
InitEffects == InitHeap({"effects"})
NextEffects ==
  \/ RenderAny
  \/ \E c \in 1..Len(comps), update \in Updates : SetState(c, update)
  \/ Microtask
  \/ Paint
SpecEffects == InitEffects /\ [][NextEffects]_vars

\* the ref specification: sibling elements rendered with one assignment of
\* refs after the other
InitRefs == InitHeap({"refs"})
RenderRefs == RenderAny
SpecRefs == InitRefs /\ [][RenderRefs]_vars

\* the context and portal specifications: renders, setter calls and drains
InitContext == InitHeap({"context"})
NextUpdates ==
  \/ RenderAny
  \/ \E c \in 1..Len(comps), update \in Updates : SetState(c, update)
  \/ Microtask
SpecContext == InitContext /\ [][NextUpdates]_vars
InitPortal == InitHeap({"portal"})
SpecPortal == InitPortal /\ [][NextUpdates]_vars
\* the runs that move a portal: three containers exist
InitRetarget == InitHeap({"retarget"}) /\ Len(doms) = 3
SpecRetarget == InitRetarget /\ [][NextUpdates]_vars

\* ------------------------------------------------------------------------
\* Observations the properties are stated with
\* ------------------------------------------------------------------------
\* the vnodes of the mounted tree: those reachable from the root vnode
\* cached on the root container
RECURSIVE Subtree(_, _)
Subtree(vn, v) ==
  {v} \cup UNION {Subtree(vn, vn[v].children[i]) : i \in 1..Len(vn[v].children)}
Live(vn, dm) == IF dm[Root].vnode = 0 THEN {} ELSE Subtree(vn, dm[Root].vnode)
Mounted(vn, dm, c) == \E v \in Live(vn, dm) : vn[v].component = c

\* the vnodes above v on the _parent chain
RECURSIVE Ancestors(_, _)
Ancestors(vn, v) ==
  IF vn[v].parent = 0 THEN {} ELSE {vn[v].parent} \cup Ancestors(vn, vn[v].parent)
\* component p is a proper ancestor of component d
IsAncestor(vn, cm, p, d) == p # d /\ cm[p].vnode \in Ancestors(vn, cm[d].vnode)

\* the positions of the body calls of component c in a call log
CallsOf(cs, c) == {i \in 1..Len(cs) : cs[i].c = c}
FirstCall(cs, c) == CHOOSE i \in CallsOf(cs, c) : \A j \in CallsOf(cs, c) : i <= j
SchedulerCall(cs, c) == CHOOSE i \in CallsOf(cs, c) : cs[i].via = "scheduler"
Queued == SeqToSet(renderQueue)
IsSetter(op) == op.name \in {"setState", "dispatch"}

C2_SameValueNoop ==
  [][IsSetter(lastOp') /\ Len(hist') = Len(hist) + 1 =>
       LET c == lastOp'.c
           cur == comps[c].list[1].value
           next == IF lastOp'.name = "setState" THEN ApplyUpdate(lastOp'.arg, cur)
                   ELSE reducer(cur, lastOp'.arg)
       IN (cur = next) =>
            /\ comps' = comps /\ renderQueue' = renderQueue
            /\ scheduled' = scheduled /\ microtasks' = microtasks
            /\ calls' = <<>> /\ ops' = <<>>]_vars

\* C2 witness: after a drain, a component whose state is NaN has its setter
\* called with NaN again; nothing is queued.
C2_Witness ==
  \E c \in 1..Len(comps) :
    /\ Len(hist) >= 3
    /\ hist[Len(hist)] = Op("setState", c, "NaN")
    /\ hist[Len(hist) - 1].name = "drain"
    /\ comps[c].list[1].value = "NaN"
    /\ renderQueue = <<>> /\ ~scheduled

\* C3 (as claimed): a drain does not invoke the body of a queued component
\* that is unmounted (before the drain, or by a re-render of the drain), and
\* a drain of unmounted components only performs no DOM operation.
C3_UnmountedSkipped ==
  [][lastOp'.name = "drain" =>
       /\ \A c \in Queued : ~Mounted(vnodes', doms', c) => CallsOf(calls', c) = {}
       /\ (\A c \in Queued : ~Mounted(vnodes, doms, c)) => ops' = <<>>]_vars

\* C4: in a drain a queued mounted component's body is invoked before the
\* body of any queued descendant, and the queue entries of equal depth are
\* rendered in the order they were enqueued.
C4_ParentFirst ==
  [][lastOp'.name = "drain" =>
       /\ \A p, d \in Queued :
            (IsAncestor(vnodes, comps, p, d) /\ Mounted(vnodes, doms, p))
            => FirstCall(calls', p) < FirstCall(calls', d)
       /\ \A i, j \in 1..Len(renderQueue) :
            (i < j /\ depthOf(World, renderQueue[i]) = depthOf(World, renderQueue[j]))
            => SchedulerCall(calls', renderQueue[i]) < SchedulerCall(calls', renderQueue[j])]_vars

\* C4 witness: the descendant was enqueued first, then its ancestor; the
\* drain rendered the ancestor first and the descendant's entry after it.
C4_Witness ==
  \E p, d \in 1..Len(comps) :
    /\ IsAncestor(vnodes, comps, p, d)
    /\ Len(hist) >= 4
    /\ hist[Len(hist)].name = "drain"
    /\ IsSetter(hist[Len(hist) - 1]) /\ hist[Len(hist) - 1].c = p
    /\ IsSetter(hist[Len(hist) - 2]) /\ hist[Len(hist) - 2].c = d
    /\ calls # <<>> /\ calls[1].c = p /\ calls[1].via = "scheduler"
    /\ \E i \in CallsOf(calls, d) : calls[i].via = "scheduler"

\* C5 (as claimed): when a component and a descendant are both queued and
\* the descendant stays mounted, the drain invokes the descendant's body
\* exactly once.
C5_DescendantOnce ==
  [][lastOp'.name = "drain" =>
       \A p, d \in Queued :
         (/\ IsAncestor(vnodes, comps, p, d)
          /\ Mounted(vnodes, doms, p) /\ Mounted(vnodes, doms, d)
          /\ Mounted(vnodes', doms', d))
         => Cardinality(CallsOf(calls', d)) = 1]_vars

\* ------------------------------------------------------------------------
\* Child reconciliation properties
\* ------------------------------------------------------------------------
\* the parent element of the child-list runs, its child vnodes and its DOM
UlVNode(vn, dm) == vn[dm[Root].vnode].children[1]
Kids(vn, dm) == vn[UlVNode(vn, dm)].children
UlDom(vn, dm) == vn[UlVNode(vn, dm)].dom
\* the DOM nodes a child owns in its parent's DOM, in order
RECURSIVE DomNodesOf(_, _)
DomNodesOf(vn, v) ==
  IF vn[v].dom # 0 THEN <<vn[v].dom>>
  ELSE IF vn[v].type = PORTAL_TYPE THEN <<>>
  ELSE FlatSeq([i \in 1..Len(vn[v].children) |-> DomNodesOf(vn, vn[v].children[i])])
\* a render call re-renders a parent that an earlier call mounted
IsRerender == renders >= 1 /\ renders' = renders + 1 /\ thrown = ""
OldKids == Kids(vnodes, doms)
NewKids == Kids(vnodes', doms')
SameShape(a, b) == a.type = b.type /\ a.key = b.key
\* the new children are a permutation of the old keyed children
IsKeyedPermutation ==
  /\ Len(OldKids) = Len(NewKids)
  /\ \A i \in 1..Len(OldKids) : vnodes[OldKids[i]].key # NoKey
  /\ \A i \in 1..Len(OldKids) :
       \E j \in 1..Len(NewKids) : SameShape(vnodes[OldKids[i]], vnodes'[NewKids[j]])
  /\ \A j \in 1..Len(NewKids) :
       \E i \in 1..Len(OldKids) : SameShape(vnodes[OldKids[i]], vnodes'[NewKids[j]])
\* the old position of the new child at j
OldPos(j) == CHOOSE i \in 1..Len(OldKids) : vnodes[OldKids[i]].key = vnodes'[NewKids[j]].key
OpsOf(kinds) == {k \in 1..Len(ops') : ops'[k].op \in kinds}
\* the new children the render moved
MovedKids ==
  {j \in 1..Len(NewKids) :
     \E k \in OpsOf({"insertBefore"}) : ops'[k].node \in SeqToSet(DomNodesOf(vnodes', NewKids[j]))}
\* the length of the longest run of new children that keep their old order
LongestKept ==
  LET Kept == {S \in SUBSET (1..Len(NewKids)) :
                 \A i, j \in S : i < j => OldPos(i) < OldPos(j)}
  IN CHOOSE n \in 0..Len(NewKids) :
       /\ \E S \in Kept : Cardinality(S) = n
       /\ \A S \in Kept : Cardinality(S) <= n

\* after the second render call: the children the first call mounted (the
\* first vnode created is the first root) and the children now mounted
FirstKids == vnodes[vnodes[1].children[1]].children
NowKids == Kids(vnodes, doms)
Reordered ==
  /\ renders = 2 /\ thrown = ""
  /\ Len(FirstKids) = MaxKids /\ Len(NowKids) = MaxKids
  /\ \A j \in 1..MaxKids : \E i \in 1..MaxKids : SameShape(vnodes[FirstKids[i]], vnodes[NowKids[j]])
  /\ \E j \in 1..MaxKids : vnodes[FirstKids[j]].key # vnodes[NowKids[j]].key

\* C6: re-rendering a parent with a permutation of its keyed children
\* creates and removes no DOM node, leaves every key on the DOM nodes that
\* carried it, and leaves the parent's DOM children in the new key order.
C6_KeyedPermutationKeepsNodes ==
  [][IsRerender /\ IsKeyedPermutation =>
       /\ OpsOf({"create", "remove", "appendChild"}) = {}
       /\ \A j \in 1..Len(NewKids) :
            DomNodesOf(vnodes', NewKids[j]) = DomNodesOf(vnodes, OldKids[OldPos(j)])
       /\ doms'[UlDom(vnodes', doms')].kids =
            FlatSeq([j \in 1..Len(NewKids) |-> DomNodesOf(vnodes', NewKids[j])])]_vars

\* C6 witness: a full keyed list re-rendered in another order: the render
\* only moved nodes and the DOM is in the order of the new children.
C6_Witness ==
  /\ family = "keyed" /\ Reordered
  /\ ops # <<>> /\ \A k \in 1..Len(ops) : ops[k].op = "insertBefore"
  /\ doms[UlDom(vnodes, doms)].kids =
       FlatSeq([j \in 1..MaxKids |-> DomNodesOf(vnodes, NowKids[j])])

C8_SameListNoDomOps ==
  [][(/\ IsRerender
      /\ Len(OldKids) = Len(NewKids)
      /\ \A i \in 1..Len(OldKids) : SameShape(vnodes[OldKids[i]], vnodes'[NewKids[i]]))
     => thrown' = "" /\ OpsOf({"insertBefore", "appendChild", "remove"}) = {}]_vars

\* the old child the new child at j would otherwise match: the one with its
\* key, or the unkeyed one at its position (0 = none)
WouldMatch(j) ==
  LET key == vnodes'[NewKids[j]].key IN
  IF key # NoKey
  THEN oldChildrenByKey([i \in 1..Len(OldKids) |-> vnodes[OldKids[i]]], key)
  ELSE IF j <= Len(OldKids) /\ vnodes[OldKids[j]].key = NoKey THEN j ELSE 0
TypeChanged(j) ==
  WouldMatch(j) # 0 /\ vnodes[OldKids[WouldMatch(j)]].type # vnodes'[NewKids[j]].type
Created(d) == d > Len(doms)
Removed(d) ==
  /\ \E k \in OpsOf({"remove"}) : ops'[k].node = d
  /\ d \notin SeqToSet(doms'[UlDom(vnodes', doms')].kids)

\* C9 (as claimed): when the new child at a slot differs in type from the
\* old child it would otherwise match, that old child's DOM node is removed
\* from the parent and the new child's DOM node is newly created.
C9_TypeChangeReplaces ==
  [][IsRerender /\ family = "typed" =>
       \A j \in 1..Len(NewKids) :
         TypeChanged(j) =>
           /\ Removed(vnodes[OldKids[WouldMatch(j)]].dom)
           /\ Created(vnodes'[NewKids[j]].dom)]_vars

\* C9 (amended): when the new child at a slot differs in type from the old
\* child it would otherwise match, the new child never takes that old
\* child's DOM node; the old node is removed from the parent unless another
\* new child of the old child's type and key reuses it; and the new child's
\* node is newly created unless the new child is unkeyed and reuses the
\* node of another unkeyed old child of its own type.
C9_TypeChangeNeverReuses ==
  [][IsRerender /\ family = "typed" =>
       \A j \in 1..Len(NewKids) :
         TypeChanged(j) =>
           LET m == WouldMatch(j)
               oldDom == vnodes[OldKids[m]].dom
               newDom == vnodes'[NewKids[j]].dom
           IN /\ newDom # oldDom
              /\ \/ Removed(oldDom)
                 \/ \E j2 \in 1..Len(NewKids) \ {j} :
                      /\ SameShape(vnodes[OldKids[m]], vnodes'[NewKids[j2]])
                      /\ vnodes'[NewKids[j2]].dom = oldDom
              /\ \/ Created(newDom)
                 \/ /\ vnodes'[NewKids[j]].key = NoKey
                    /\ \E m2 \in 1..Len(OldKids) \ {m} :
                         /\ SameShape(vnodes[OldKids[m2]], vnodes'[NewKids[j]])
                         /\ vnodes[OldKids[m2]].dom = newDom]_vars

\* C9 witness: the unkeyed child at a slot changed type: the old child was
\* unmounted, a node was removed and the new child's node was created.
C9_Witness ==
  /\ family = "typed" /\ renders = 2
  /\ \E j \in 1..Len(NowKids) :
       /\ j <= Len(FirstKids)
       /\ vnodes[NowKids[j]].key = NoKey /\ vnodes[FirstKids[j]].key = NoKey
       /\ vnodes[NowKids[j]].type # vnodes[FirstKids[j]].type
       /\ vnodes[FirstKids[j]].dom = 0
       /\ \E k \in 1..Len(ops) : ops[k].op = "remove"
       /\ \E k \in 1..Len(ops) :
            ops[k].op = "create" /\ ops[k].node = vnodes[NowKids[j]].dom

\* the new child at i has an unkeyed old child of its type at its position
SamePlace(i) ==
  /\ i <= Len(OldKids)
  /\ vnodes'[NewKids[i]].key = NoKey
  /\ SameShape(vnodes[OldKids[i]], vnodes'[NewKids[i]])

\* C10 (as claimed): a new unkeyed child whose position holds an unkeyed old
\* child of its type reuses that old child's DOM node, whatever the other
\* children are.
C10_SamePlaceReuses ==
  [][IsRerender /\ family = "typed" =>
       \A i \in 1..Len(NewKids) :
         SamePlace(i) => vnodes'[NewKids[i]].dom = vnodes[OldKids[i]].dom]_vars

\* C10 (amended): a new unkeyed child whose position holds an unkeyed old
\* child of its type reuses that old child's DOM node, provided every
\* unkeyed new child of that type before it also has an unkeyed old child of
\* the type at its own position.
C10_SamePlaceReusesUnclaimed ==
  [][IsRerender /\ family = "typed" =>
       \A i \in 1..Len(NewKids) :
         (/\ SamePlace(i)
          /\ \A j \in 1..(i - 1) :
               SameShape(vnodes'[NewKids[j]], vnodes'[NewKids[i]]) => SamePlace(j))
         => vnodes'[NewKids[i]].dom = vnodes[OldKids[i]].dom]_vars

\* C10 witness: the first child changed type and the unkeyed second child,
\* of the type of the old second child, kept that child's node.
C10_Witness ==
  /\ family = "typed" /\ renders = 2
  /\ Len(NowKids) >= 2 /\ Len(FirstKids) >= 2
  /\ vnodes[NowKids[1]].type # vnodes[FirstKids[1]].type
  /\ vnodes[NowKids[2]].key = NoKey
  /\ SameShape(vnodes[NowKids[2]], vnodes[FirstKids[2]])
  /\ vnodes[NowKids[2]].dom = vnodes[FirstKids[2]].dom
  /\ vnodes[NowKids[2]].dom # 0

\* ------------------------------------------------------------------------
\* Observations on the trace
\* ------------------------------------------------------------------------
\* the positions of the events of one kind that slot i of component c made
EventsOf(tr, kind, c, i) ==
  {p \in 1..Len(tr) : tr[p].kind = kind /\ tr[p].c = c /\ tr[p].i = i}
\* the last position of S before p (0 = none)
PrevIn(S, p) ==
  IF \E q \in S : q < p THEN CHOOSE q \in S : q < p /\ \A r \in S : r < p => r <= q ELSE 0
\* the slots of one kind ("effect" = useEffect, "layout" = useLayoutEffect)
SlotsOf(cm, kind) ==
  {s \in UNION {{<<c, i>> : i \in 1..Len(cm[c].list)} : c \in 1..Len(cm)} :
     cm[s[1]].list[s[2]].kind = kind}
EffectSlots(cm) == SlotsOf(cm, "effect") \cup SlotsOf(cm, "layout")
\* the renders of a slot whose deps differ element-wise (Object.is) from
\* the deps of the slot's previous render; the first render counts
ChangedRenders(tr, hook, c, i) ==
  {p \in EventsOf(tr, hook, c, i) :
     LET q == PrevIn(EventsOf(tr, hook, c, i), p) IN
     \/ q = 0
     \/ Len(tr[q].deps) # Len(tr[p].deps)
     \/ \E k \in 1..Len(tr[p].deps) : ~ObjectIs(tr[q].deps[k], tr[p].deps[k])}

\* ------------------------------------------------------------------------
\* Effect properties
\* ------------------------------------------------------------------------
\* C11 (as claimed): a useEffect slot's callback is invoked once for the
\* mount and once for every render whose deps differ from the previous
\* render's deps, and not otherwise: it is never invoked more often than
\* that, and when no post-paint continuation is pending it has been invoked
\* exactly that often for every mounted component.
C11_EffectOncePerChange ==
  \A s \in SlotsOf(comps, "effect") :
    LET invoked == Cardinality(EventsOf(trace, "effect", s[1], s[2]))
        changed == Cardinality(ChangedRenders(trace, "useEffect", s[1], s[2]))
    IN /\ invoked <= changed
       /\ (afterPaintQueue = <<>> /\ Mounted(vnodes, doms, s[1])) => invoked = changed

\* the invocations of the callback of slot s, and the invocations of the
\* cleanup that invocation p returned
RunsOf(tr, s) == EventsOf(tr, "effect", s[1], s[2]) \cup EventsOf(tr, "layout", s[1], s[2])
CleanupsOf(tr, s, p) == {q \in EventsOf(tr, "cleanup", s[1], s[2]) : tr[q].x = p}

\* C12 (as claimed): the cleanup returned by an invocation of an effect
\* slot's callback is never invoked twice, it has been invoked once before
\* the slot's next invocation starts, and it has been invoked once when
\* the owning component is unmounted.
C12_CleanupExactlyOnce ==
  \A s \in EffectSlots(comps) : \A p \in RunsOf(trace, s) :
    /\ Cardinality(CleanupsOf(trace, s, p)) <= 1
    /\ \A n \in RunsOf(trace, s) : p < n => \E q \in CleanupsOf(trace, s, p) : q < n
    /\ ~Mounted(vnodes, doms, s[1]) => CleanupsOf(trace, s, p) # {}

\* ------------------------------------------------------------------------
\* Ref properties
\* ------------------------------------------------------------------------
\* the mounted element vnodes that carry ref r
Attached(vn, dm, r) == {v \in Live(vn, dm) : vn[v].ref = r /\ vn[v].type \in Tags}
\* the vnodes with ref r that unmount has torn down
Unmounted(vn, dm, r) ==
  {v \in 1..Len(vn) : v \notin Live(vn, dm) /\ vn[v].ref = r /\ vn[v].type \in Tags
                      /\ vn[v].dom = 0}

\* C13 (as claimed): after the commit of a render, a ref attached to a
\* mounted element holds that element's DOM node (also when the element at
\* that slot changed type), and a ref whose element was unmounted and that
\* is attached to no mounted element holds null.
C13_RefHoldsNode ==
  \A r \in RefNames :
    /\ \A v \in Attached(vnodes, doms, r) :
         vnodes[v].dom # 0 /\ refs[r] = DomRef(vnodes[v].dom)
    /\ (Attached(vnodes, doms, r) = {} /\ Unmounted(vnodes, doms, r) # {})
         => refs[r] = NullRef

\* ------------------------------------------------------------------------
\* Commit properties
\* ------------------------------------------------------------------------
\* the positions of the events of one kind
Events(tr, kind) == {p \in 1..Len(tr) : tr[p].kind = kind}
\* the operations (commits) whose render queued slot (c, i) for the
\* invocation at position q
QueuedBy(tr, q) ==
  {tr[u].at : u \in {u \in EventsOf(tr, "useEffect", tr[q].c, tr[q].i) : u < q /\ tr[u].x = 1}}

\* C14: within one commit every ref assignment precedes every layout-effect
\* callback of that commit, and every layout-effect callback of a commit
\* precedes every post-paint effect callback that the commit scheduled.
C14_RefsLayoutEffects ==
  /\ \A p \in Events(trace, "ref"), q \in Events(trace, "layout") :
       trace[p].at = trace[q].at => p < q
  /\ \A p \in Events(trace, "layout"), q \in Events(trace, "effect") :
       trace[p].at \in QueuedBy(trace, q) => p < q

\* a commit that assigned a ref and ran a layout effect, followed by the
\* paint that ran the effect the commit scheduled
C14_Witness ==
  \E r \in Events(trace, "ref"), p \in Events(trace, "layout"), q \in Events(trace, "effect") :
    /\ trace[r].at = trace[p].at /\ trace[r].x # 0
    /\ trace[p].at \in QueuedBy(trace, q)
    /\ trace[q].c = trace[p].c

\* the live element and text vnodes whose DOM node is missing or detached
Unplaced(vn, dm) ==
  {v \in Live(vn, dm) : v # dm[Root].vnode /\ vn[v].type \in Tags \cup {TEXT}
                        /\ (vn[v].dom = 0 \/ dm[vn[v].dom].parent = 0)}
\* the events the last operation made
EventsAt(tr, kind, k) == {p \in Events(tr, kind) : tr[p].at = k}

\* C15: when render() or a scheduler drain has returned, the DOM mutations
\* are done (every element and text of the tree is in the document), every
\* layout effect that the rendered components queued has run and none is
\* left pending, and no post-paint effect callback has been invoked by the
\* operation.
C15_LayoutBeforeReturn ==
  (lastOp.name \in {"render", "drain"} /\ thrown = "") =>
    /\ Unplaced(vnodes, doms) = {}
    /\ \A u \in EventsAt(trace, "useLayoutEffect", steps) :
         trace[u].x = 1 =>
           \E p \in EventsOf(trace, "layout", trace[u].c, trace[u].i) :
             u < p /\ trace[p].at = steps
    /\ \A i \in 1..Len(calls) : comps[calls[i].c].pendingLayoutEffects = <<>>
    /\ EventsAt(trace, "effect", steps) = {}

\* a scheduler re-render of a mounted component that rewrote its text in
\* the document, ran a layout effect and left a post-paint effect pending
C15_Witness ==
  /\ lastOp.name = "drain" /\ thrown = ""
  /\ \E p \in EventsAt(trace, "layout", steps) :
       LET c == trace[p].c IN
       /\ Mounted(vnodes, doms, c)
       /\ comps[c].pendingEffects # <<>>
       /\ \E i \in 1..Len(calls) : calls[i].c = c /\ calls[i].via = "scheduler"
       /\ comps[c].list[1].value # "0"
       /\ doms[vnodes[Head(vnodes[comps[c].vnode].children)].dom].text
            = comps[c].list[1].value

\* ------------------------------------------------------------------------
\* Context properties
\* ------------------------------------------------------------------------
\* the nearest Provider vnode above vnode v (0 = none), and the value prop
\* a consumer rendered at v is to read
RECURSIVE NearestProvider(_, _)
NearestProvider(vn, v) ==
  IF v = 0 THEN 0
  ELSE IF vn[v].type = "Provider" THEN v
  ELSE NearestProvider(vn, vn[v].parent)
ProvidedValue(vn, v) ==
  LET p == NearestProvider(vn, vn[v].parent) IN
  IF p = 0 THEN Context.defaultValue ELSE vn[p].props.text

\* C16 (as claimed): a mounted consumer's body reads from useContext the
\* value prop of the nearest Provider above it (the inner one of two nested
\* Providers), and the context's default value when no Provider is above it.
C16_NearestProviderValue ==
  \A p \in EventsAt(trace, "useContext", steps) :
    Mounted(vnodes, doms, trace[p].c) =>
      trace[p].deps = <<ProvidedValue(vnodes, comps[trace[p].c].vnode)>>

\* the Provider vnodes that the step diffs again with a different value:
\* pairs of the old and the new vnode of one Provider instance
Revalued(vn, dm, vn2, dm2) ==
  {pr \in Live(vn, dm) \X Live(vn2, dm2) :
     /\ pr[1] # pr[2]
     /\ vn[pr[1]].type = "Provider" /\ vn2[pr[2]].type = "Provider"
     /\ vn[pr[1]].component # 0 /\ vn2[pr[2]].component = vn[pr[1]].component
     /\ ~ObjectIs(vn[pr[1]].props.text, vn2[pr[2]].props.text)}

\* C17 (as claimed): when a render or drain diffs a Provider again with a
\* value that differs (Object.is) from the value of its previous diff,
\* every subscriber that is still mounted is in the render queue afterwards,
\* and a subscriber that was unmounted is not enqueued and is no longer in
\* the Provider's subscriber set.
C17_ProviderChangeEnqueues ==
  [][lastOp'.name \in {"render", "drain"} =>
       \A pr \in Revalued(vnodes, doms, vnodes', doms') :
         \A c \in SeqToSet(vnodes[pr[1]].subs) :
           IF Mounted(vnodes', doms', c)
           THEN c \in SeqToSet(renderQueue')
           ELSE /\ c \notin SeqToSet(vnodes'[pr[2]].subs)
                /\ c \notin Queued => c \notin SeqToSet(renderQueue')]_vars

\* the components that have called useContext
Consumers(tr) == {tr[p].c : p \in Events(tr, "useContext")}
\* component c is in no Provider's subscriber set and tracks no Provider
Unsubscribed(vn, cm, c) ==
  /\ cm[c].subs = <<>>
  /\ \A v \in 1..Len(vn) : c \notin SeqToSet(vn[v].subs)

\* C18 (as claimed): a component that called useContext and has been
\* unmounted is a member of no Provider's subscriber set, and its own
\* subscription set is empty.
C18_UnmountedUnsubscribed ==
  \A c \in Consumers(trace) :
    ~Mounted(vnodes, doms, c) => Unsubscribed(vnodes, comps, c)

\* ------------------------------------------------------------------------
\* Portal properties
\* ------------------------------------------------------------------------
\* DOM node n is inside DOM node p
RECURSIVE Inside(_, _, _)
Inside(dm, n, p) ==
  IF n = 0 \/ dm[n].parent = 0 THEN FALSE
  ELSE dm[n].parent = p \/ Inside(dm, dm[n].parent, p)
\* the mounted portal vnodes, and the DOM nodes of a portal's descendants
Portals(vn, dm) == {v \in Live(vn, dm) : vn[v].type = PORTAL_TYPE}
PortalNodes(vn, pv) == {vn[v].dom : v \in {v \in Subtree(vn, pv) : v # pv /\ vn[v].dom # 0}}
\* the DOM node of the nearest vnode above v that has one
StructuralParent(vn, v) == getParentDomFrom([vn |-> vn], vn[v].parent)

\* C19 (as claimed): after a render or a drain that returned, every DOM
\* node of a mounted portal's descendants is inside the portal's target
\* container and not inside the DOM node of the portal's structural parent.
C19_PortalNodesInTarget ==
  (lastOp.name \in {"render", "drain"} /\ thrown = "") =>
    \A pv \in Portals(vnodes, doms) : \A n \in PortalNodes(vnodes, pv) :
      /\ Inside(doms, n, vnodes[pv].props.container)
      /\ ~Inside(doms, n, StructuralParent(vnodes, pv))

\* the mounted portals that the step unmounts (unmount empties _children)
UnmountedPortals(vn, dm, vn2) ==
  {pv \in Portals(vn, dm) : vn[pv].children # <<>> /\ vn2[pv].children = <<>>}
\* the DOM nodes of a portal's descendants that are in its target container
NodesInTarget(vn, dm, pv) ==
  {n \in PortalNodes(vn, pv) : Inside(dm, n, vn[pv].props.container)}

\* C20: when a step unmounts a portal vnode, because the portal left the
\* tree or because an element above it was removed or replaced, no DOM node
\* that the portal's descendants had in the target container is in the
\* target container afterwards.
C20_PortalUnmountClearsTarget ==
  [][\A pv \in UnmountedPortals(vnodes, doms, vnodes') :
       \A n \in NodesInTarget(vnodes, doms, pv) :
         ~Inside(doms', n, vnodes[pv].props.container)]_vars

\* a render that removed the element above a portal: the element left the
\* root container and the portal's node left the target container
C20_Witness ==
  /\ lastOp.name = "render" /\ thrown = ""
  /\ \E pv \in 1..Len(vnodes) :
       /\ vnodes[pv].type = PORTAL_TYPE /\ pv \notin Live(vnodes, doms)
       /\ vnodes[pv].children = <<>>
       /\ vnodes[pv].parent # 0 /\ vnodes[vnodes[pv].parent].type \in Tags
       /\ vnodes[pv].parent \notin Live(vnodes, doms)
       /\ \E i, j \in 1..Len(ops) :
            /\ i < j
            /\ ops[i].op = "remove" /\ ops[i].parent = Root
            /\ ops[j].op = "remove" /\ ops[j].parent = vnodes[pv].props.container

\* the pairs of a mounted portal before the step and a mounted portal after
\* it at the same place of the tree, with different target containers
Retargeted(vn, dm, vn2, dm2) ==
  {pr \in Portals(vn, dm) \X Portals(vn2, dm2) :
     /\ pr[1] # pr[2]
     /\ vn[pr[1]].depth = vn2[pr[2]].depth /\ vn[pr[1]].index = vn2[pr[2]].index
     /\ vn[pr[1]].props.container # vn2[pr[2]].props.container}
\* the components below vnode v
ComponentsBelow(vn, v) == {vn[u].component : u \in {u \in Subtree(vn, v) : u # v}} \ {0}

\* C21: when a step renders a portal with a target container other than
\* the one it had, the portal's previous DOM nodes are in the old container
\* no more, the components it held are unmounted and hold no cleanup, and
\* the portal's nodes are new nodes inside the new container.
C21_RetargetMovesChildren ==
  [][(lastOp'.name \in {"render", "drain"} /\ thrown' = "") =>
       \A pr \in Retargeted(vnodes, doms, vnodes', doms') :
         /\ \A n \in PortalNodes(vnodes, pr[1]) :
              ~Inside(doms', n, vnodes[pr[1]].props.container)
         /\ \A c \in ComponentsBelow(vnodes, pr[1]) :
              /\ ~Mounted(vnodes', doms', c)
              /\ \A i \in 1..Len(comps'[c].list) : comps'[c].list[i].cleanup = 0
         /\ PortalNodes(vnodes', pr[2]) # {}
         /\ \A n \in PortalNodes(vnodes', pr[2]) :
              /\ Inside(doms', n, vnodes'[pr[2]].props.container)
              /\ n \notin PortalNodes(vnodes, pr[1])]_vars

\* a render moved a portal below a kept element from Target to Target2:
\* the layout cleanup of the component it held ran and Target is empty
C21_Witness ==
  /\ lastOp.name = "render" /\ thrown = "" /\ Len(hist) >= 2
  /\ doms[Target].kids = <<>> /\ doms[Target2].kids # <<>>
  /\ \E pv \in Portals(vnodes, doms) :
       /\ vnodes[pv].props.container = Target2
       /\ vnodes[pv].parent # 0 /\ vnodes[vnodes[pv].parent].type = "div"
  /\ \E p \in EventsAt(trace, "cleanup", steps) : trace[p].at = steps
  /\ \E i \in 1..Len(ops) : ops[i].op = "remove" /\ ops[i].parent = Target
  /\ \A i \in 1..Len(ops) : ops[i].op = "remove" => ops[i].parent # Root

\* the runs with event handlers: renders, and events dispatched at the
\* elements that are in the document
DispatchEvent(n, e) ==
  /\ steps < MaxSteps /\ thrown = ""
  /\ n \in 1..Len(doms) /\ n # Root /\ doms[n].tag # TEXT
  /\ Inside(doms, n, Root)
  /\ UNCHANGED renders
  /\ Becomes(dispatchEvent(World, n, e), Op("dispatchEvent", n, e))
InitEvents == InitHeap({"events"})
NextEvents ==
  \/ RenderAny
  \/ \E n \in 1..Len(doms), e \in EventNames : DispatchEvent(n, e)
SpecEvents == InitEvents /\ [][NextEvents]_vars

\* the elements in the document below the render root
ElementNodes(vn, dm) == {vn[v].dom : v \in {v \in Live(vn, dm) : vn[v].type \in Tags}}
\* the handler that the props of the vnode of element n give for event e
HandlerOf(vn, dm, n, e) ==
  LET v == CHOOSE v \in Live(vn, dm) : vn[v].type \in Tags /\ vn[v].dom = n
      p == CHOOSE p \in EventProps : EventNameOf[p] = e
  IN PropValue(vn[v].props.on, p)
\* the listener calls of the step for event e on node n
ListenerCalls(os, name, n, e) ==
  {i \in 1..Len(os) : os[i].op = name /\ os[i].node = n /\ os[i].ref = e}
\* the handlers that the step invoked on node n, in order
RECURSIVE InvokedAt(_, _, _)
InvokedAt(tr, from, n) ==
  IF from > Len(tr) THEN <<>>
  ELSE (IF tr[from].kind = "handler" /\ tr[from].c = n THEN <<tr[from].x>> ELSE <<>>)
       \o InvokedAt(tr, from + 1, n)

\* C22: for an element kept by a render and an event name, a change of the
\* handler from one function to another makes no addEventListener and no
\* removeEventListener call and leaves the proxy registered with the new
\* handler in the element's handler map; removeEventListener is called,
\* once, exactly when a function handler becomes null or absent; an event
\* dispatched afterwards invokes, on each element it reaches, the handler
\* of the element's current props and nothing else.
C22_HandlerSwapKeepsProxy ==
  [][/\ (lastOp'.name = "render" /\ thrown' = "") =>
          \A n \in ElementNodes(vnodes, doms) \cap ElementNodes(vnodes', doms') :
            \A e \in EventNames :
              LET old == HandlerOf(vnodes, doms, n, e)
                  new == HandlerOf(vnodes', doms', n, e)
                  adds == ListenerCalls(ops', "addEventListener", n, e)
                  removes == ListenerCalls(ops', "removeEventListener", n, e)
              IN /\ (IsHandler(old) /\ IsHandler(new)) =>
                      /\ adds = {} /\ removes = {}
                      /\ e \in doms'[n].proxies
                      /\ doms'[n].listeners[e] = new
                 /\ Cardinality(removes) =
                      (IF IsHandler(old) /\ ~IsHandler(new) THEN 1 ELSE 0)
                 /\ (removes # {}) => e \notin doms'[n].proxies
     /\ (lastOp'.name = "dispatchEvent") =>
          \A n \in ElementNodes(vnodes, doms) :
            LET e == lastOp'.arg
                handler == HandlerOf(vnodes, doms, n, e)
                reached == n = lastOp'.c \/ Inside(doms, lastOp'.c, n)
            IN InvokedAt(trace', Len(trace) + 1, n) =
                 (IF reached /\ IsHandler(handler) THEN <<handler>> ELSE <<>>)]_vars

\* a click on the button invoked the first function, a render that kept
\* the button gave it the second function without any DOM call, and the
\* next click invoked the second function only
C22_Witness ==
  /\ Len(hist) = 4 /\ hist[1].name = "render" /\ hist[2].name = "dispatchEvent"
  /\ hist[3].name = "render" /\ lastOp.name = "dispatchEvent"
  /\ hist[2].c = lastOp.c /\ hist[2].arg = "click" /\ lastOp.arg = "click"
  /\ Len(doms) = 3 /\ doms[3].tag = "button" /\ lastOp.c = 3
  /\ doms[3].proxies = {"click"} /\ doms[3].listeners["click"] = "f2"
  /\ [p \in 1..Len(trace) |-> trace[p].x] = <<"f1", "f2">>
  /\ \A p \in 1..Len(trace) : trace[p].kind = "handler" /\ trace[p].c = 3

\* the runs that end in an unmount of the whole tree: applications with
\* effects, with refs and with portals
InitTeardown == InitHeap({"effects", "refs", "portal"})
SpecTeardown == InitTeardown /\ [][NextEffects]_vars

\* the step was a render whose new root has no children: render(null)
RenderedNull(hs, vn, dm) ==
  /\ Last(hs).name = "render"
  /\ dm[Root].vnode # 0 /\ vn[dm[Root].vnode].children = <<>>
\* the vnodes that earlier renders mounted below the root
MountedBelowRoot(vn, dm) == Live(vn, dm) \ {dm[Root].vnode}
\* vnode v of the old tree is unmounted in the new state: it is not in the
\* tree, its DOM node is in no container, its component holds no cleanup
\* and its ref is null
IsUnmounted(vn, vn2, dm2, cm2, rf2, v) ==
  /\ v \notin Live(vn2, dm2)
  /\ (vn[v].type \in Tags \cup {TEXT} /\ vn[v].dom # 0) =>
       /\ ~Inside(dm2, vn[v].dom, Root)
       /\ ~Inside(dm2, vn[v].dom, Target)
  /\ vn[v].component # 0 =>
       \A i \in 1..Len(cm2[vn[v].component].list) :
         cm2[vn[v].component].list[i].cleanup = 0
  /\ vn[v].ref # NoRef => rf2[vn[v].ref] = NullRef

StoreValues == {"0", "1", "NaN"}
StoreSet(value) ==
  /\ steps < MaxSteps /\ thrown = ""
  /\ UNCHANGED renders
  /\ Becomes(storeSet(World, value), Op("set", 0, value))
InitStore == InitHeap({"store"})
NextStore ==
  \/ RenderAny
  \/ \E value \in StoreValues : StoreSet(value)
  \/ Microtask
  \/ Paint
SpecStore == InitStore /\ [][NextStore]_vars

\* the mounted components that read the store
StoreReaders(vn, dm) ==
  {vn[v].component : v \in {v \in Live(vn, dm) : vn[v].type = "Sync"}} \ {0}
\* the text that component c shows
ShownBy(vn, dm, c) ==
  LET v == CHOOSE v \in Live(vn, dm) : vn[v].component = c
  IN dm[vn[vn[v].children[1]].dom].text
\* the subscription effect of c has run and none is waiting, and the
\* scheduler has nothing to render
Settled(cm, q, c) ==
  /\ cm[c].pendingEffects = <<>>
  /\ cm[c].list[2].cleanup # 0
  /\ q = <<>>

\* C24: for a mounted component that reads the store, once its
\* subscription effect has run and the scheduler has drained, the state
\* of the component and the text it shows are the store's current
\* snapshot, whether the store changed before the effect ran or notified
\* after it.
C24_StoreSnapshotShown ==
  \A c \in StoreReaders(vnodes, doms) :
    (thrown = "" /\ Settled(comps, renderQueue, c)) =>
      /\ ObjectIs(comps[c].list[1].value, store.state)
      /\ ObjectIs(ShownBy(vnodes, doms, c), store.state)

\* the store changed between the render and the paint that ran the
\* subscription effect; the drain after it re-rendered the component
C24_Witness ==
  /\ Len(hist) = 4 /\ hist[1].name = "render" /\ hist[2].name = "set"
  /\ hist[3].name = "paint" /\ hist[4].name = "drain" /\ thrown = ""
  /\ store.state = "1" /\ Len(store.listeners) = 1
  /\ \E c \in StoreReaders(vnodes, doms) :
       /\ Settled(comps, renderQueue, c)
       /\ ShownBy(vnodes, doms, c) = "1"
       /\ \E k \in 1..Len(calls) : calls[k].c = c /\ calls[k].via = "scheduler"


\* the components that have been unmounted: runCleanups ran for them
CleanedUp(tr) == {tr[p].c : p \in Events(tr, "runCleanups")}
\* the subscriptions component c made and the ones it took back
Subscribed(tr, c) == {p \in Events(tr, "effect") : tr[p].c = c /\ IsSyncCallback(tr[p].deps)}
Unsubscriptions(tr, c, id) ==
  {p \in Events(tr, "cleanup") : tr[p].c = c /\ tr[p].x = id}

\* C25: when a component that reads the store has been unmounted, the
\* unsubscribe function of each subscription it made has been called
\* exactly once and the store holds no listener of the component,
\* whatever renders, store changes, drains and paints came before or after.
C25_UnmountUnsubscribes ==
  \A c \in CleanedUp(trace) :
    /\ \A id \in Subscribed(trace, c) : Cardinality(Unsubscriptions(trace, c, id)) = 1
    /\ \A k \in 1..Len(store.listeners) : store.listeners[k].c # c


\* the runs with component children under one element
InitInstances == InitHeap({"instances"})
NextInstances ==
  \/ RenderAny
  \/ \E c \in 1..Len(comps) : SetState(c, "1")
  \/ Microtask
SpecInstances == InitInstances /\ [][NextInstances]_vars

\* the children of the element that the root renders
KidsOfRoot(vn, dm) ==
  IF dm[Root].vnode = 0 \/ vn[dm[Root].vnode].children = <<>> THEN <<>>
  ELSE vn[vn[dm[Root].vnode].children[1]].children
\* the positions of list l (vnodes of heap vn) that hold an unkeyed child
\* of type t
UnkeyedOf(vn, l, t) == {j \in 1..Len(l) : vn[l[j]].key = NoKey /\ vn[l[j]].type = t}
\* the old child whose instance the new child holds, 0 when the instance
\* is new
ReusedFrom(vn, old, vn2, nv) ==
  LET S == {j \in 1..Len(old) : vn[old[j]].component = vn2[nv].component}
  IN IF S = {} THEN 0 ELSE CHOOSE j \in S : TRUE
\* what holds of a new child in either case: a reused instance keeps its
\* state, a new one has run its initialiser
StateCarried(vn, cm, old, vn2, cm2, nv) ==
  LET j == ReusedFrom(vn, old, vn2, nv)
      c == vn2[nv].component
  IN IF j # 0
     THEN /\ vn[old[j]].type = vn2[nv].type /\ vn[old[j]].key = vn2[nv].key
          /\ cm2[c].list[1].value = cm[c].list[1].value
     ELSE c > Len(cm) /\ cm2[c].list[1].value = "0"

CallH ==
  /\ family = "h" /\ ~made.done
  /\ made' = [made EXCEPT !.done = TRUE, !.vnode = h("div", made.props, made.children)]
  /\ hist' = Append(hist, Op("h", 0, ""))
  /\ steps' = steps + 1
  /\ UNCHANGED <<vnodes, doms, comps, renderQueue, scheduled, microtasks,
                 currentComponent, currentIndex, ops, calls, thrown, refs,
                 afterPaintQueue, trace, store, timers, family, renders>>
InitH == InitHeap({"h"})
SpecH == InitH /\ [][CallH]_vars

\* the values of an argument list that are neither null, undefined nor a
\* boolean, at any depth, in order
RECURSIVE KeptOf(_)
KeptOf(item) ==
  IF item.arr
  THEN FlatSeq([i \in 1..Len(item.items) |-> KeptOf(item.items[i])])
  ELSE IF item.val \in Dropped THEN <<>> ELSE <<item>>
Kept(children) == KeptOf(Array(children))
\* the value props gives for name n: undefined when props is null or has
\* no such property
Given(props, n) ==
  IF ~props.isNull /\ n \in DOMAIN props.obj THEN props.obj[n] ELSE Atom("undefined")
Hoisted(value) == IF value = Atom("undefined") THEN Atom("null") ELSE value
\* what the sentences say of the vnode apart from the case of no kept child
HoistsAndFlattens(m) ==
  LET kept == Kept(m.children) IN
  /\ "key" \notin DOMAIN m.vnode.props /\ "ref" \notin DOMAIN m.vnode.props
  /\ m.vnode.key = Hoisted(Given(m.props, "key"))
  /\ m.vnode.ref = Hoisted(Given(m.props, "ref"))
  /\ "className" \in DOMAIN m.vnode.props <=>
       (~m.props.isNull /\ "className" \in DOMAIN m.props.obj)
  /\ Len(kept) = 1 => m.vnode.props["children"] = kept[1]
  /\ Len(kept) > 1 => m.vnode.props["children"] = Array(kept)

InitOrder == InitHeap({"order"})
NextOrder ==
  \/ RenderAny
  \/ \E c \in 1..Len(comps) : SetState(c, "1")
  \/ Microtask
  \/ Paint
SpecOrder == InitOrder /\ [][NextOrder]_vars

\* the place of vnode v in its tree: the child indices from the root down
RECURSIVE PathOf(_, _)
PathOf(vn, v) ==
  IF vn[v].parent = 0 THEN <<>> ELSE Append(PathOf(vn, vn[v].parent), vn[v].index)
\* the vnode at path p1 comes before the one at p2 in post-order: it is
\* below it, or in a subtree to the left of it
PostOrderFirst(p1, p2) ==
  \/ Len(p2) < Len(p1) /\ SubSeq(p1, 1, Len(p2)) = p2
  \/ \E k \in 1..Len(p1) :
       /\ k <= Len(p2) /\ SubSeq(p1, 1, k - 1) = SubSeq(p2, 1, k - 1)
       /\ p1[k] < p2[k]
ComponentFirst(vn, cm, c1, c2) ==
  PostOrderFirst(PathOf(vn, cm[c1].vnode), PathOf(vn, cm[c2].vnode))
\* the positions of the trace where an effect of the kind ran in operation k
RanAt(tr, kind, k) == {p \in 1..Len(tr) : tr[p].kind = kind /\ tr[p].at = k}

\* C28: in a render or a drain that made one commit, the layout effects
\* of two components run in the post-order of the tree (a descendant
\* before its ancestor, a left sibling before a right one), the queue of
\* components handed to afterPaint is in that order, and a paint runs the
\* effects of the components in the order of the queue it was handed.
C28_EffectsPostOrder ==
  [][/\ (lastOp'.name \in {"render", "drain"} /\ thrown' = ""
         /\ Len(afterPaintQueue') <= Len(afterPaintQueue) + 1) =>
          /\ \A p, q \in RanAt(trace', "layout", steps + 1) :
               (p < q /\ trace'[p].c # trace'[q].c) =>
                 ComponentFirst(vnodes', comps', trace'[p].c, trace'[q].c)
          /\ Len(afterPaintQueue') = Len(afterPaintQueue) + 1 =>
               LET cq == Last(afterPaintQueue') IN
               \A i, j \in 1..Len(cq) :
                 i < j => ComponentFirst(vnodes', comps', cq[i], cq[j])
     /\ lastOp'.name = "paint" =>
          LET cq == Head(afterPaintQueue) IN
          \A p, q \in RanAt(trace', "effect", steps + 1) :
            (p < q /\ trace'[p].c # trace'[q].c) =>
              IndexOf(cq, trace'[p].c) < IndexOf(cq, trace'[q].c)]_vars

\* a render swapped two keyed children below a parent and changed the deps
\* of all three: the layout effects ran for the new left child, the new
\* right child and then the parent
C28_Witness ==
  /\ lastOp.name = "render" /\ thrown = "" /\ Len(hist) = 2
  /\ LET L == RanAt(trace, "layout", steps)
         first == CHOOSE p \in L : \A q \in L : p <= q
         last == CHOOSE p \in L : \A q \in L : q <= p
     IN /\ Cardinality(L) = 3
        /\ trace[first].deps[1] = "y" /\ trace[last].deps[1] = "x"
        /\ vnodes[comps[trace[first].c].vnode].key = "k2"
        /\ vnodes[comps[trace[first].c].vnode].index = 1
        /\ trace[first].c > trace[last].c


\* the runs with a component that calls its setter in its body
InitBump == InitHeap({"bump"})
SpecBump == InitBump /\ [][NextUpdates]_vars

\* the positions of the trace where the body of a component called its
\* setter with a value that changed the state
SetsInBody(tr) == {p \in 1..Len(tr) : tr[p].kind = "setInBody" /\ tr[p].x = 1}

\* C29: when the body of a component has called its setter with a new
\* value, every later execution of that body is in a later operation: no
\* render() call and no drain pass executes the body again after the
\* setter call it contains; and the render() call leaves the component in
\* the render queue with a microtask scheduled.
C29_SetterInBodyOnlyEnqueues ==
  /\ \A p \in SetsInBody(trace) :
       \A q \in (p + 1)..Len(trace) :
         (trace[q].kind = "body" /\ trace[q].c = trace[p].c) => trace[q].at > trace[p].at
  /\ (lastOp.name = "render" /\ thrown = "") =>
       \A p \in SetsInBody(trace) :
         trace[p].at = steps => (trace[p].c \in Queued /\ microtasks > 0)


\* the runs with a component whose body can throw
InitBoom == InitHeap({"boom"})
SpecBoom == InitBoom /\ [][NextUpdates]_vars

\* C30: whenever render(), a setter call or a scheduler drain has returned
\* or thrown, also when a component body threw, the current-component
\* register is null and the hook index is 0.
C30_RegisterNullBetweenOperations ==
  currentComponent = 0 /\ currentIndex = 0

\* a drain ran the body of a component after another one had rendered, the
\* body called a hook and threw
C30_Witness ==
  /\ lastOp.name = "drain" /\ thrown = "Error"
  /\ calls # <<>> /\ Last(calls).via = "scheduler"
  /\ comps[Last(calls).c].list[1].value = "1"
  /\ \E k \in 1..Len(hist) : hist[k].name = "render"


\* the runs with components whose layout effects can throw
InitLay == InitHeap({"lay"})
NextLay ==
  \/ RenderAny
  \/ \E c \in 1..Len(comps) : SetState(c, "1")
  \/ Microtask
  \/ Paint
SpecLay == InitLay /\ [][NextLay]_vars

\* slot (c1, i1) comes before slot (c2, i2) in a commit: an earlier hook of
\* the same component, or a component that is first in post-order
SlotFirst(vn, cm, c1, i1, c2, i2) ==
  IF c1 = c2 THEN i1 < i2 ELSE ComponentFirst(vn, cm, c1, c2)

\* C31: when a layout-effect callback throws in the commit of a render or
\* of a drain, the operation throws that error, every layout effect the
\* operation queued before it in commit order has run, no layout effect
\* that it queued after it in commit order has run, and no layout effect
\* at all runs after the one that threw.
C31_LayoutThrowStopsCommit ==
  [][\A t \in RanAt(trace', "layout", steps + 1) :
       Throws(trace'[t].deps) =>
         /\ thrown' = "EffectError"
         /\ lastOp'.name \in {"render", "drain"}
         /\ \A p \in RanAt(trace', "layout", steps + 1) : p <= t
         /\ \A u \in EventsAt(trace', "useLayoutEffect", steps + 1) :
              trace'[u].x = 1 =>
                LET ran == {p \in EventsOf(trace', "layout", trace'[u].c, trace'[u].i) :
                              trace'[p].at = steps + 1 /\ u < p}
                IN /\ SlotFirst(vnodes', comps', trace'[u].c, trace'[u].i,
                                trace'[t].c, trace'[t].i) => ran # {}
                   /\ SlotFirst(vnodes', comps', trace'[t].c, trace'[t].i,
                                trace'[u].c, trace'[u].i) => ran = {}]_vars

\* a render of three sibling components threw in the second layout effect
\* of the middle one: the three effects of the left sibling and the first
\* of the middle one ran, the other four of the nine queued did not
C31_Witness ==
  /\ lastOp.name = "render" /\ thrown = "EffectError"
  /\ Cardinality({u \in EventsAt(trace, "useLayoutEffect", steps) : trace[u].x = 1}) = 9
  /\ Cardinality(RanAt(trace, "layout", steps)) = 5
  /\ Throws(trace[Len(trace)].deps)


\* the runs in which the host fires the timers and frames of afterPaint one
\* by one
\* done touches nothing but the timers
OnlyTimers(w) ==
  /\ timers' = w.timers
  /\ UNCHANGED <<vnodes, doms, comps, renderQueue, scheduled, microtasks,
                 currentComponent, currentIndex, ops, calls, thrown, hist, refs,
                 afterPaintQueue, trace, store, made, family, steps, renders>>
TimeoutFires(k) ==
  /\ k <= Len(timers) /\ timers[k].timeout = "set"
  /\ OnlyTimers(timeoutFires(World, k))
FrameFires(k) ==
  /\ k <= Len(timers) /\ timers[k].raf = "requested"
  /\ OnlyTimers(frameFires(World, k))
RunTask(k) ==
  /\ k <= Len(timers) /\ timers[k].tasks > 0
  /\ UNCHANGED renders
  /\ Becomes(runTask(World, k), Op("task", k, ""))
\* no run makes more afterPaint calls than this
MaxTimers == 2 * MaxSteps
InitTimers == InitHeap({"timers"})
NextTimers ==
  \/ RenderAny
  \/ \E c \in 1..Len(comps) : SetState(c, "1")
  \/ Microtask
  \/ \E k \in 1..MaxTimers : TimeoutFires(k)
  \/ \E k \in 1..MaxTimers : FrameFires(k)
  \/ \E k \in 1..MaxTimers : RunTask(k)
\* what a step of RunTask does to the timers; no other step does it
TaskRuns ==
  \E k \in 1..MaxTimers :
    /\ k <= Len(timers) /\ timers[k].tasks > 0
    /\ timers' = [timers EXCEPT ![k].tasks = @ - 1, ![k].ran = @ + 1]
\* the host runs every timer that is set and every task that is queued; a
\* frame may never come (a hidden tab)
SpecTimers ==
  /\ InitTimers /\ [][NextTimers]_vars
  /\ WF_timers(\E k \in 1..MaxTimers : TimeoutFires(k))
  /\ WF_timers(TaskRuns)

\* the k-th afterPaint call has run done at most once, and what fired has
\* cancelled the other
FiresOnce(k) ==
  /\ timers[k].tasks + timers[k].ran <= 1
  /\ ~(timers[k].timeout = "fired" /\ timers[k].raf = "fired")
  /\ timers[k].timeout = "fired" => timers[k].raf = "cancelled"
  /\ timers[k].raf = "fired" => timers[k].timeout = "cleared"
  /\ (timers[k].tasks + timers[k].ran = 0) =>
       (timers[k].timeout = "set" /\ timers[k].raf = "requested")

\* the continuation of the k-th afterPaint call has run
HasRun(k) == k <= Len(timers) /\ timers[k].ran = 1

\* C32: for every commit that called afterPaint, the continuation that
\* runs the post-paint effects is queued at most once and run at most
\* once, whichever of the frame and the 35 ms timer fires first, the one
\* that fired has cancelled the other, and the continuation does run.
C32_ContinuationFiresOnce ==
  /\ [](\A k \in 1..Len(timers) : FiresOnce(k))
  /\ \A k \in 1..MaxTimers : [](Len(timers) >= k => <>HasRun(k))

\* two commits are waiting: the timer of the first one fired and its
\* continuation ran, the frame of the second one fired and its
\* continuation is queued
C32_Witness ==
  /\ Len(timers) = 2
  /\ timers[1].timeout = "fired" /\ timers[1].raf = "cancelled" /\ timers[1].ran = 1
  /\ timers[2].raf = "fired" /\ timers[2].timeout = "cleared" /\ timers[2].tasks = 1
  /\ \E p \in Events(trace, "effect") : hist[trace[p].at].name = "task"


\* C33: when render() or a scheduler drain has returned, the root wrapper
\* cached on the container has depth 0 and no parent, and every child of a
\* mounted vnode has that vnode as its _parent (also when the vnode is a
\* component, a fragment or a portal, which is not the parent of the
\* child's DOM node), the vnode's depth plus 1 as its depth and its place
\* in the child list as its index.
C33_DepthFollowsStructure ==
  (lastOp.name \in {"render", "drain"} /\ thrown = "" /\ doms[Root].vnode # 0) =>
    /\ vnodes[doms[Root].vnode].depth = 0
    /\ vnodes[doms[Root].vnode].parent = 0
    /\ \A v \in Live(vnodes, doms) :
         \A i \in 1..Len(vnodes[v].children) :
           LET child == vnodes[vnodes[v].children[i]] IN
           /\ child.parent = v
           /\ child.depth = vnodes[v].depth + 1
           /\ child.index = i - 1

\* a drain re-rendered a component that is a child of a portal: the
\* component has depth 3 below the root wrapper, a div and the portal, its
\* text has depth 4, and the text's DOM node lies in the portal's target
C33_Witness ==
  /\ lastOp.name = "drain" /\ thrown = ""
  /\ \E v \in Live(vnodes, doms) :
       /\ vnodes[v].type = "Show" /\ vnodes[v].depth = 3
       /\ vnodes[vnodes[v].parent].type = PORTAL_TYPE
       /\ \E i \in 1..Len(calls) :
            calls[i].c = vnodes[v].component /\ calls[i].via = "scheduler"
       /\ LET text == vnodes[vnodes[v].children[1]] IN
          /\ text.depth = 4 /\ text.parent = v
          /\ doms[text.dom].text = "1"
          /\ doms[text.dom].parent = Target


\* the runs with a component that has a following sibling
InitSiblings == InitHeap({"siblings"})
SpecSiblings == InitSiblings /\ [][NextUpdates]_vars

\* the DOM nodes the children of vnode v own, flattened left to right
OwnedNodes(vn, v) ==
  FlatSeq([i \in 1..Len(vn[v].children) |-> DomNodesOf(vn, vn[v].children[i])])
\* the mounted vnodes that have a DOM element of their own, the root
\* wrapper (whose node is the container) included
Elements(vn, dm) ==
  {v \in Live(vn, dm) : vn[v].type \in Tags \/ v = dm[Root].vnode}

\* C34 (as claimed): when render() or a scheduler drain has returned, the
\* child nodes of every mounted element and of the root container are, in
\* order, the DOM nodes its vnode children own (through components and
\* fragments, without portal content); so a component re-rendered by the
\* scheduler leaves its nodes before those of its following siblings.
C34_DomOrderIsTreeOrder ==
  (lastOp.name \in {"render", "drain"} /\ thrown = "") =>
    \A v \in Elements(vnodes, doms) :
      doms[vnodes[v].dom].kids = OwnedNodes(vnodes, v)


\* C35 (as claimed): every insertBefore(node, ref) the engine performs has
\* a ref that is null or a child of the parent it inserts into, so no
\* render raises the host's NotFoundError; also for a child list in which
\* a portal comes before a sibling while the portal's target container
\* holds a node after the portal's content.
C35_InsertRefIsChild ==
  /\ thrown # "NotFoundError"
  /\ \A k \in 1..Len(ops) :
       (ops[k].op = "insertBefore" /\ ops[k].ref # 0) =>
         doms[ops[k].ref].parent = ops[k].parent


\* the components whose unmount has run runCleanups
Torn(tr) == {tr[p].c : p \in Events(tr, "runCleanups")}

\* C36 (as claimed): no useEffect callback is invoked for a component
\* after the unmount of that component ran its cleanups, also when the
\* component is unmounted between the commit that queued the effect and
\* the paint; so no unmounted component is left holding a cleanup that
\* has not run.
C36_NoEffectAfterUnmount ==
  /\ \A q \in Events(trace, "effect") :
       \A p \in Events(trace, "runCleanups") :
         trace[p].c = trace[q].c => q < p
  /\ \A c \in Torn(trace) :
       \A i \in 1..Len(comps[c].list) : comps[c].list[i].cleanup = 0


\* the runs in which the host runs every queued microtask.  DrainRuns is
\* what a step of Microtask does to the history; no other step does it.
DrainRuns == microtasks > 0 /\ hist' = Append(hist, Op("drain", 0, ""))
SpecDrain == InitBoom /\ [][NextUpdates]_vars /\ WF_hist(DrainRuns)

\* no run of these applications creates more components than this
MaxComponents == 2 * MaxRenders
\* component c is mounted and waits in the render queue
Waiting(c) == c <= Len(comps) /\ c \in Queued /\ comps[c].vnode # 0

\* C37 (as claimed): between operations, whenever the render queue is not
\* empty a drain microtask is scheduled, and every mounted component in
\* the queue is eventually taken out of it by a drain; also after a
\* component body threw in an earlier drain.
C37_QueueAlwaysDrained ==
  /\ [](renderQueue # <<>> => microtasks > 0)
  /\ \A c \in 1..MaxComponents : [](Waiting(c) => <>(~Waiting(c)))


\* the runs that render one component with one deps value after the other,
\* with paints in between or not
MaxDepsSteps == 5
InitDeps == InitHeap({"deps"})
RenderDeps == steps < MaxDepsSteps /\ \E tree \in Trees(family) : Render(tree)
NextDeps == RenderDeps \/ Paint
SpecDeps == InitDeps /\ [][NextDeps]_vars

\* the deps the most recent render of component c passed to useEffect slot i
LastDeps(tr, c, i) ==
  LET renderings == EventsOf(tr, "useEffect", c, i) IN
  tr[CHOOSE u \in renderings : \A v \in renderings : v <= u].deps

\* C38 (as claimed): whenever no post-paint continuation is pending, every
\* useEffect slot of a mounted component holds as accepted deps (_args) the
\* deps its component passed in its most recent render; also when the deps
\* go from A to B and back to A between two paints.
C38_AcceptedDepsAreLatest ==
  afterPaintQueue = <<>> =>
    \A s \in SlotsOf(comps, "effect") :
      Mounted(vnodes, doms, s[1]) =>
        comps[s[1]].list[s[2]].args = LastDeps(trace, s[1], s[2])


\* the runs in which a render can throw in a component body and later
\* renders follow
MaxRecoverRenders == 3
InitRecover == InitHeap({"recover"})
RenderRecover == renders < MaxRecoverRenders /\ \E tree \in Trees(family) : Render(tree)
SpecRecover == InitRecover /\ [][RenderRecover]_vars

\* the components that hold a cleanup that has not run; in these runs a
\* cleanup is that of a layout effect, which only the commit of a render
\* that did not throw has run
HoldingCleanup(cm) ==
  {c \in 1..Len(cm) : \E i \in 1..Len(cm[c].list) : cm[c].list[i].cleanup # 0}
\* operation k was a render() call that returned
Succeeded(hs, tr, k) ==
  hs[k].name = "render" /\ \A p \in Events(tr, "throw") : tr[p].at # k
\* the DOM nodes that render() calls that returned have created
MountedBySuccess(hs, tr, dm) ==
  {n \in 1..Len(dm) : dm[n].born # 0 /\ Succeeded(hs, tr, dm[n].born)}

\* C39 (as claimed): when render(null, container) has returned, no DOM
\* node that an earlier render() call that returned has created is left in
\* the container, and no component of those renders holds a cleanup that
\* has not run; also when a render() call in between threw in a component
\* body.
C39_RenderNullAfterThrow ==
  [][(thrown' = "" /\ RenderedNull(hist', vnodes', doms')) =>
       /\ \A n \in MountedBySuccess(hist, trace, doms) : ~Inside(doms', n, Root)
       /\ HoldingCleanup(comps') = {}]_vars


\* ------------------------------------------------------------------------
\* Removed refs
\* ------------------------------------------------------------------------
\* C40 (as claimed): after the commit of a render, a ref that was attached
\* to a mounted element before the render and is attached to no mounted
\* element after it holds null, also when the element is kept and only its
\* ref was removed.
C40_RemovedRefCleared ==
  [][thrown' = "" =>
       \A r \in RefNames :
         (Attached(vnodes, doms, r) # {} /\ Attached(vnodes', doms', r) = {})
           => refs'[r] = NullRef]_vars

====
